---------------------------- MODULE Spec2Model ----------------------------
(***************************************************************************)
(* STIR asset encoders: the DUB tile-graphics encoder (dubencoder.cpp) and *)
(* the ADPCM audio encoder (audioencoder.cpp), as state machines.          *)
(*                                                                         *)
(* Spec            one DUBEncoder: encodeTiles (block by block, tile by    *)
(*                 tile), then getResult.                                  *)
(* SpecSample      ADPCMEncoder::encodeSample, called on codec states.     *)
(* SpecADPCM       ADPCMEncoder::encode: optimizeIC (index search, hill    *)
(*                 climb), then encodeWithIC over the whole input.         *)
(*                                                                         *)
(* and the firmware's UICoordinator (ui_coordinator.cpp):                  *)
(*                                                                         *)
(* SpecUI          one UICoordinator, its calls interleaved with the cubes *)
(*                 connecting and disconnecting, the radio sending stipple *)
(*                 packets, and time passing.                              *)
(***************************************************************************)
EXTENDS Integers, Sequences, FiniteSets, TLC

VARIABLES
    \* ---- DUBEncoder members and the input of encodeTiles
    mWidth, mHeight, mFrames,   \* image geometry, in tiles
    tiles,                      \* std::vector<uint16_t> &tiles (1-based here)
    indexResult,                \* std::vector<uint16_t>
    blockResult,                \* std::vector<uint16_t>
    mIndex16,                   \* bool
    \* ---- locals of encodeTiles
    dedupeMemo,                 \* std::map<std::vector<uint16_t>, uint16_t>
    lf, ly, lx,                 \* the loop variables f, y, x
    \* ---- locals of encodeBlock (the block being encoded, or the last one)
    blk,                        \* its arguments: origin (f, y, x), width, height
    bpos,                       \* number of tiles of the block consumed so far
    dict, prevCode, repeatCount, repeating,
    bits,                       \* BitBuffer bits: the buffered bits, oldest first
    data,                       \* std::vector<uint16_t> &data
    \* ---- getResult's output
    result,
    dpc,                        \* position of the DUB encoder
    \* ---- history (not program state): what was handed to packCode
    codes,                      \* codes packed for the block, in order
    emitted,                    \* codes packed by the last encodeBlock iteration
    payloads,                   \* blockData of every block finished, in order
    decoded,                    \* the reference decoder's state, fed the codes
    \* ---- ADPCMEncoder::encode
    input,                      \* const std::vector<uint8_t> &in
    state,                      \* State state: [sample, index]
    error, bestIndex,           \* locals of optimizeIC
    output,                     \* std::vector<uint8_t> &out
    apc,                        \* position of the ADPCM encoder
    \* ---- history (not program state)
    outBefore,                  \* what out held when encode was called
    tried,                      \* initial indices optimizeIC has evaluated
    accepted,                   \* the last hill-climb move accepted: errors before, after
    call,                       \* the last encodeSample call: arguments and results
    ncalls,                     \* encodeSample calls made (SpecSample)
    \* ---- UICoordinator members
    avb,                        \* _SYSAttachedVideoBuffer avb: [cube, vbuf]
    savedVBuf,                  \* _SYSVideoBuffer *savedVBuf (0 is null)
    stippleDeadline,            \* SysTime::Ticks stippleDeadline
    uiConnected,                \* _SYSCubeIDVector uiConnected
    \* ---- CubeSlots and SysTime
    vramPaused, sendStipple, sysConnected,  \* _SYSCubeIDVector, as sets of ids
    instances,                  \* CubeSlots::instances: each slot's vbuf pointer
    userBufs,                   \* the video buffers userspace owns, by address
    ticks,                      \* SysTime::ticks()
    \* ---- the coordinator's thread
    upc,                        \* its position
    uiCall,                     \* the call in progress or last made: [op, cv, id];
                                \* of detach(), id is the cube it found attached
    ret,                        \* what the last call returned
    \* ---- history (not program state)
    vbufBefore                  \* the cube's pointer when attachToCube last took it

dubVars == <<mWidth, mHeight, mFrames, tiles, indexResult, blockResult,
             mIndex16, dedupeMemo, lf, ly, lx, blk, bpos, dict, prevCode,
             repeatCount, repeating, bits, data, result, dpc, codes, emitted,
             payloads, decoded>>

adpcmVars == <<input, state, error, bestIndex, output, apc, outBefore, tried,
               accepted, call, ncalls>>

uiVars == <<avb, savedVBuf, stippleDeadline, uiConnected, vramPaused,
            sendStipple, sysConnected, instances, userBufs, ticks, upc,
            uiCall, ret, vbufBefore>>

vars == <<dubVars, adpcmVars, uiVars>>

-----------------------------------------------------------------------------
(* Bounds of the model *)

\* Every image of at most MaxTiles tiles is an input, with every assignment
\* of the tile values below.
MaxTiles == 4

\* How many of the representative tile values the small images draw from.
NumTileVals == 3

\* The ADPCM inputs hold every sequence of at most MaxSamples samples.
MaxSamples == 3

\* SpecSample makes at most MaxCalls calls of encodeSample in a row.
MaxCalls == 2

\* The cube slots are 0 .. NumCubeSlots - 1 (_SYS_NUM_CUBE_SLOTS).
NumCubeSlots == 2

\* SysTime::ticks() stops advancing at MaxTime milliseconds.
MaxTime == 300

-----------------------------------------------------------------------------
(* Fixed-width integers *)

U16(n) == n % 65536

\* A 32-bit unsigned value as its two 16-bit halves <<high, low>> (the model
\* checker's integers are 32-bit signed). U32(n) is n modulo 2^32, for any n
\* of magnitude below 2^31.
U32(n) == <<(n \div 65536) % 65536, n % 65536>>

\* u >= k, for a 32-bit unsigned u and 0 <= k <= 65536
U32Ge(u, k) == u[1] > 0 \/ u[2] >= k

\* The conversion of a 32-bit unsigned value to int (two's complement).
U32ToInt(u) ==
    IF u[1] >= 32768 THEN (u[1] - 65536) * 65536 + u[2] ELSE u[1] * 65536 + u[2]

\* The low 16 and the low 8 bits of a 32-bit unsigned value.
U32Low16(u) == u[2]

U32Low8(u) == u[2] % 256

\* The element of a one-element set
The(S) == CHOOSE x \in S : TRUE

Min(a, b) == IF a < b THEN a ELSE b

Max(a, b) == IF a > b THEN a ELSE b

-----------------------------------------------------------------------------
(* BitBuffer (dubencoder.h) *)

\* append(value, n): the low n bits of value, most significant first.
BitsAppend(b, value, n) ==
    b \o [k \in 1..n |-> (value \div (2 ^ (n - k))) % 2]

\* appendVar(value, chunk): chunk-bit groups, least significant group first,
\* each preceded by a continuation flag (1: more groups follow, 0: last);
\* at least one group.
RECURSIVE BitsAppendVar(_, _, _)
BitsAppendVar(b, value, chunk) ==
    LET group == value % (2 ^ chunk)
        rest  == value \div (2 ^ chunk)
    IN  IF rest = 0
        THEN BitsAppend(BitsAppend(b, 0, 1), group, chunk)
        ELSE BitsAppendVar(BitsAppend(BitsAppend(b, 1, 1), group, chunk), rest, chunk)

\* getCount(): the number of bits buffered.
BitsGetCount(b) == Len(b)

\* One 16-bit word from up to 16 buffered bits: the oldest bit is bit 0.
RECURSIVE WordOf(_)
WordOf(b) ==
    IF b = <<>> THEN 0 ELSE Head(b) + 2 * WordOf(Tail(b))

\* flush(into, final): whole 16-bit words leave the buffer; with final, the
\* remaining bits are padded with zeros to one more word.
RECURSIVE BitsFlush(_, _, _)
BitsFlush(b, into, final) ==
    IF Len(b) >= 16
    THEN BitsFlush(SubSeq(b, 17, Len(b)),
                   Append(into, WordOf(SubSeq(b, 1, 16))), final)
    ELSE IF final /\ Len(b) > 0
         THEN [bits |-> <<>>, data |-> Append(into, WordOf(b))]
         ELSE [bits |-> b, data |-> into]

-----------------------------------------------------------------------------
(* DUBEncoder: codes *)

BLOCK_SIZE == 8

Code(t, v) == [type |-> t, value |-> v]

\* const unsigned chunk = 3 in packCode
PackChunk == 3

\* packCode(code, bits): the bits after the code is appended. INVALID hits
\* assert(0) and appends nothing.
PackCode(code, b) ==
    CASE code.type = "DELTA" ->
            IF code.value < 0
            THEN BitsAppendVar(BitsAppend(BitsAppend(b, 0, 1), 1, 1),
                               -code.value, PackChunk)
            ELSE BitsAppendVar(BitsAppend(BitsAppend(b, 0, 1), 0, 1),
                               code.value, PackChunk)
      [] code.type = "REF" ->
            BitsAppendVar(BitsAppend(b, 1, 1), code.value, PackChunk)
      [] code.type = "REPEAT" ->
            BitsAppendVar(b, code.value, PackChunk)
      [] OTHER -> b

\* codeLen(code): the length of the code packed into a scratch buffer.
CodeLen(code) == BitsGetCount(PackCode(code, <<>>))

\* The DELTA candidate of findBestCode: literal on an empty dictionary,
\* else the difference to the most recent entry, as ints.
DeltaCode(d, tile) ==
    IF d = <<>>
    THEN Code("DELTA", tile)
    ELSE Code("DELTA", tile - d[Len(d)])

\* A findBestCode that takes the oldest occurrence of the tile.
FindBestCodeOldest(d, tile) ==
    LET delta == DeltaCode(d, tile)
        bestLength == CodeLen(delta)
        hits == {i \in 0..(Len(d) - 1) :
                    /\ tile = d[Len(d) - i]
                    /\ CodeLen(Code("REF", i)) <= bestLength}
    IN  IF hits = {}
        THEN delta
        ELSE Code("REF", CHOOSE i \in hits : \A j \in hits : i >= j)

\* A findBestCode that never looks for a back reference.
FindBestCodeDeltaOnly(d, tile) == DeltaCode(d, tile)

\* A findBestCode whose back reference counts from one entry too far.
FindBestCodeOffByOne(d, tile) ==
    LET delta == DeltaCode(d, tile)
        bestLength == CodeLen(delta)
        hits == {i \in 0..(Len(d) - 1) :
                    /\ tile = d[Len(d) - i]
                    /\ CodeLen(Code("REF", i)) <= bestLength}
    IN  IF hits = {}
        THEN delta
        ELSE Code("REF", (CHOOSE i \in hits : \A j \in hits : i <= j) + 1)

\* findBestCode(dict, tile): the DELTA candidate, unless the first back
\* reference to an identical tile (i counts back from the most recent entry)
\* whose length is <= the DELTA's is found; the scan breaks there.
FindBestCode(d, tile) ==
    LET delta == DeltaCode(d, tile)
        bestLength == CodeLen(delta)
        hits == {i \in 0..(Len(d) - 1) :
                    /\ tile = d[Len(d) - i]
                    /\ CodeLen(Code("REF", i)) <= bestLength}
    IN  IF hits = {}
        THEN delta
        ELSE Code("REF", CHOOSE i \in hits : \A j \in hits : i <= j)

\* A run handling that packs nothing for the tile that begins a run.
RunStepSkip(rep, count, prev, code) ==
    LET sameCode == (code.type = prev.type /\ code.value = prev.value)
    IN  IF rep
        THEN IF sameCode
             THEN [emit |-> <<>>, repeating |-> TRUE, repeatCount |-> count + 1]
             ELSE [emit |-> <<Code("REPEAT", count), code>>,
                   repeating |-> FALSE, repeatCount |-> count]
        ELSE IF sameCode
             THEN [emit |-> <<>>, repeating |-> TRUE, repeatCount |-> 0]
             ELSE [emit |-> <<code>>, repeating |-> FALSE, repeatCount |-> count]

\* A run handling that packs the previous code in place of the tile's.
RunStepPackPrev(rep, count, prev, code) ==
    LET sameCode == (code.type = prev.type /\ code.value = prev.value)
    IN  IF rep
        THEN IF sameCode
             THEN [emit |-> <<>>, repeating |-> TRUE, repeatCount |-> count + 1]
             ELSE [emit |-> <<Code("REPEAT", count), prev>>,
                   repeating |-> FALSE, repeatCount |-> count]
        ELSE IF sameCode
             THEN [emit |-> <<prev>>, repeating |-> TRUE, repeatCount |-> 0]
             ELSE [emit |-> <<prev>>, repeating |-> FALSE, repeatCount |-> count]

\* The run handling of one encodeBlock iteration (lines 187-211): the codes
\* handed to packCode, in order, and the run state afterwards.
RunStep(rep, count, prev, code) ==
    LET sameCode == (code.type = prev.type /\ code.value = prev.value)
    IN  IF rep
        THEN IF sameCode
             THEN [emit |-> <<>>, repeating |-> TRUE, repeatCount |-> count + 1]
             ELSE [emit |-> <<Code("REPEAT", count), code>>,
                   repeating |-> FALSE, repeatCount |-> count]
        ELSE IF sameCode
             THEN [emit |-> <<code>>, repeating |-> TRUE, repeatCount |-> 0]
             ELSE [emit |-> <<code>>, repeating |-> FALSE, repeatCount |-> count]

\* packCode followed by bits.flush(data), for each code of a sequence.
RECURSIVE PackAndFlush(_, _, _)
PackAndFlush(cs, b, d) ==
    IF cs = <<>>
    THEN [bits |-> b, data |-> d]
    ELSE LET fl == BitsFlush(PackCode(Head(cs), b), d, FALSE)
         IN  PackAndFlush(Tail(cs), fl.bits, fl.data)

-----------------------------------------------------------------------------
(* DUBEncoder: inputs *)

\* Representative uint16_t tile values: small ones, and the two ends of the
\* range, where the DELTA codes are longest.
TileValList == <<0, 1, 65535, 2, 32768, 9>>

TileVals == {TileValList[k] : k \in 1..NumTileVals}

Image(w, h, f, t) == [w |-> w, h |-> h, f |-> f, tiles |-> t]

\* Every image of at most MaxTiles tiles (zero frames included).
SmallDims ==
    {d \in (1..MaxTiles) \X (1..MaxTiles) \X (0..MaxTiles) :
        d[1] * d[2] * d[3] <= MaxTiles}

SmallImages ==
    UNION {{Image(d[1], d[2], d[3], t) :
                t \in [1..(d[1] * d[2] * d[3]) -> TileVals]} : d \in SmallDims}

\* Larger images, whose tiles follow a pattern of the position p (0-based):
\* full 8x8 blocks, clipped edge blocks, several blocks per frame.
Pattern(k, p, w) ==
    CASE k = 1 -> 0                          \* one tile everywhere
      [] k = 2 -> p                          \* a ramp
      [] k = 3 -> (p * 40503) % 65536        \* scattered values
      [] k = 4 -> (p % w) % BLOCK_SIZE       \* every row alike, period 8
      [] k = 5 -> 9 - 3 * ((p \div 5) % 4)   \* runs of five, stepping down
      [] k = 7 -> IF p % 9 = 0 THEN 0 ELSE 1 \* a tile last seen 9 tiles back
      [] OTHER -> (p * p) % 7

PatternIds == 1..7

Shapes == {<<8, 8, 1>>, <<16, 8, 1>>, <<9, 2, 1>>, <<3, 9, 2>>, <<8, 8, 4>>,
           <<1, 1, 20>>, <<9, 9, 1>>}

PatternImages ==
    {Image(d[1], d[2], d[3],
           [p \in 1..(d[1] * d[2] * d[3]) |-> Pattern(k, p - 1, d[1])]) :
        d \in Shapes, k \in PatternIds}

Images == SmallImages \cup PatternImages

-----------------------------------------------------------------------------
(* DUBEncoder: members *)

\* getNumBlocks()
GetNumBlocks ==
    ((mWidth + BLOCK_SIZE - 1) \div BLOCK_SIZE) *
    ((mHeight + BLOCK_SIZE - 1) \div BLOCK_SIZE) * mFrames

\* An index size of s/2 + 1 words in place of (s + 1)/2
IndexSizeOfOneMore(idx16, index) ==
    IF idx16 THEN Len(index) ELSE (Len(index) \div 2) + 1

\* getIndexSize(), for a given mIndex16 and indexResult
IndexSizeOf(idx16, index) ==
    IF idx16 THEN Len(index) ELSE (Len(index) + 1) \div 2

GetIndexSize == IndexSizeOf(mIndex16, indexResult)

\* nextWord of packIndex(i)
NextWordOf(idx16, i) == IF idx16 THEN i + 1 ELSE (i + 2) \div 2

\* A packIndex that takes the next word of a 16-bit index in both widths.
PackIndexOfWide(idx16, index, i) ==
    U32(IndexSizeOf(idx16, index) + index[i + 1] - (i + 1))

\* packIndex(i), in unsigned arithmetic, for a given mIndex16 and indexResult
PackIndexOf(idx16, index, i) ==
    U32(IndexSizeOf(idx16, index) + index[i + 1] - NextWordOf(idx16, i))

PackIndex(i) == PackIndexOf(mIndex16, indexResult, i)

IsTooLargeOfStrict(indexSize, blockWords) ==
    U32Ge(U32(indexSize + blockWords), 65536) /\ indexSize + blockWords # 65536

\* isTooLarge(), for a given getIndexSize() and blockResult.size()
IsTooLargeOf(indexSize, blockWords) ==
    U32Ge(U32(indexSize + blockWords), 65536)

IsTooLarge == IsTooLargeOf(GetIndexSize, Len(blockResult))

\* isIndex16()
IsIndex16 == mIndex16

\* getCompressedWords()
GetCompressedWords == GetIndexSize + Len(blockResult)

\* A scan that stops one index short.
ScanIndex16Short(index) ==
    \E i \in 0..(Len(index) - 2) : U32Ge(PackIndexOf(FALSE, index, i), 256)

\* The scan of encodeTiles, lines 76-82: mIndex16 is false while packIndex
\* is probed, and becomes true at the first index that needs more than 8 bits.
ScanIndex16(index) ==
    \E i \in 0..(Len(index) - 1) : U32Ge(PackIndexOf(FALSE, index, i), 256)

\* The index region getResult writes.
RECURSIVE PackBytes(_)
PackBytes(b) ==
    IF b = <<>> THEN <<>>
    ELSE <<U16(b[1] + 256 * b[2])>> \o PackBytes(SubSeq(b, 3, Len(b)))

ResultIndex ==
    IF mIndex16
    THEN [i \in 1..Len(indexResult) |-> U32Low16(PackIndex(i - 1))]
    ELSE LET index8 == [i \in 1..Len(indexResult) |-> U32Low8(PackIndex(i - 1))]
         IN  PackBytes(IF Len(index8) % 2 = 1 THEN Append(index8, 0) ELSE index8)

-----------------------------------------------------------------------------
(* DUBEncoder: encodeTiles, encodeBlock, getResult *)

\* The reference decoder the encoder's output is meant for, fed each code
\* as it is packed: DELTA v appends the last tile (0 when there is none)
\* plus v, REF i the tile i positions back from the last one, and REPEAT n
\* applies the code before it n more times. -1 marks a code that cannot be
\* decoded.
ApplyCode(out, c) ==
    CASE c.type = "DELTA" ->
            Append(out, (IF out = <<>> THEN 0 ELSE out[Len(out)]) + c.value)
      [] c.type = "REF" /\ c.value >= 0 /\ c.value < Len(out) ->
            Append(out, out[Len(out) - c.value])
      [] OTHER -> Append(out, -1)

\* ApplyCode n times over: a repeated DELTA keeps adding, a repeated REF i
\* cycles through the last i+1 tiles.
ApplyTimes(out, c, n) ==
    CASE n <= 0 -> out
      [] n > 0 /\ c.type = "DELTA" ->
            out \o [k \in 1..n |->
                      (IF out = <<>> THEN 0 ELSE out[Len(out)]) + k * c.value]
      [] n > 0 /\ c.type = "REF" /\ c.value >= 0 /\ c.value < Len(out) ->
            out \o [k \in 1..n |->
                      out[Len(out) - c.value + ((k - 1) % (c.value + 1))]]
      [] OTHER -> out \o [k \in 1..n |-> -1]

DecodeStep(dec, c) ==
    IF c.type = "REPEAT"
    THEN [out |-> ApplyTimes(dec.out, dec.prev, c.value), prev |-> dec.prev]
    ELSE [out |-> ApplyCode(dec.out, c), prev |-> c]

RECURSIVE DecodeAll(_, _)
DecodeAll(dec, cs) ==
    IF cs = <<>> THEN dec ELSE DecodeAll(DecodeStep(dec, Head(cs)), Tail(cs))

NoDecoded == [out |-> <<>>, prev |-> Code("INVALID", 0)]

NoBlock == [f |-> 0, y |-> 0, x |-> 0, w |-> 0, h |-> 0]

DubInit ==
    \E img \in Images :
        /\ mWidth = img.w
        /\ mHeight = img.h
        /\ mFrames = img.f
        /\ tiles = img.tiles
        /\ indexResult = <<>>
        /\ blockResult = <<>>
        /\ mIndex16 = FALSE
        /\ dedupeMemo = <<>>
        /\ lf = 0 /\ ly = 0 /\ lx = 0
        /\ blk = NoBlock
        /\ bpos = 0
        /\ dict = <<>>
        /\ prevCode = Code("INVALID", 0)
        /\ repeatCount = 0
        /\ repeating = FALSE
        /\ bits = <<>>
        /\ data = <<>>
        /\ result = <<>>
        /\ dpc = "loop"
        /\ codes = <<>>
        /\ emitted = <<>>
        /\ payloads = <<>>
        /\ decoded = NoDecoded

\* pTopLeft[x + y*mWidth] for the n-th tile (0-based, row-major) of block b
BlockTile(b, n) ==
    tiles[(b.x + b.y * mWidth + b.f * mWidth * mHeight)
          + (n % b.w) + (n \div b.w) * mWidth + 1]

\* Loops that go on while x <= mWidth, y <= mHeight.
LoopAfterInclusive(f, y, x) ==
    IF x + BLOCK_SIZE <= mWidth THEN <<f, y, x + BLOCK_SIZE>>
    ELSE IF y + BLOCK_SIZE <= mHeight THEN <<f, y + BLOCK_SIZE, 0>>
    ELSE <<f + 1, 0, 0>>

\* The loop variables after one more block (mWidth, mHeight >= 1).
LoopAfter(f, y, x) ==
    IF x + BLOCK_SIZE < mWidth THEN <<f, y, x + BLOCK_SIZE>>
    ELSE IF y + BLOCK_SIZE < mHeight THEN <<f, y + BLOCK_SIZE, 0>>
    ELSE <<f + 1, 0, 0>>

\* encodeTiles lines 49-56 and encodeBlock lines 171-175: the next block of
\* the loop, and encodeBlock's locals.
BeginBlock ==
    /\ dpc = "loop"
    /\ lf < mFrames
    /\ blk' = [f |-> lf, y |-> ly, x |-> lx,
               w |-> Min(BLOCK_SIZE, mWidth - lx),
               h |-> Min(BLOCK_SIZE, mHeight - ly)]
    /\ bpos' = 0
    /\ dict' = <<>>
    /\ prevCode' = Code("INVALID", 0)
    /\ repeatCount' = 0
    /\ repeating' = FALSE
    /\ bits' = <<>>
    /\ data' = <<>>
    /\ codes' = <<>>
    /\ emitted' = <<>>
    /\ decoded' = NoDecoded
    /\ dpc' = "block"
    /\ UNCHANGED <<mWidth, mHeight, mFrames, tiles, indexResult, blockResult,
                   mIndex16, dedupeMemo, lf, ly, lx, result, payloads>>
    /\ UNCHANGED adpcmVars
    /\ UNCHANGED uiVars

\* One iteration of encodeBlock's loop, lines 179-211.
EncodeTile ==
    /\ dpc = "block"
    /\ bpos < blk.w * blk.h
    /\ LET tile == BlockTile(blk, bpos)
           code == FindBestCode(dict, tile)
           rs   == RunStep(repeating, repeatCount, prevCode, code)
           pf   == PackAndFlush(rs.emit, bits, data)
       IN  /\ dict' = Append(dict, tile)
           /\ prevCode' = code
           /\ repeating' = rs.repeating
           /\ repeatCount' = rs.repeatCount
           /\ bits' = pf.bits
           /\ data' = pf.data
           /\ emitted' = rs.emit
           /\ codes' = codes \o rs.emit
           /\ decoded' = DecodeAll(decoded, rs.emit)
    /\ bpos' = bpos + 1
    /\ UNCHANGED <<mWidth, mHeight, mFrames, tiles, indexResult, blockResult,
                   mIndex16, dedupeMemo, lf, ly, lx, blk, result, dpc, payloads>>
    /\ UNCHANGED adpcmVars
    /\ UNCHANGED uiVars

\* An end of encodeBlock that packs no REPEAT.
FinalCodesNone(rep, count) == <<>>

\* The end of encodeBlock, lines 214-222: the codes still to pack.
FinalCodes(rep, count) ==
    IF rep THEN <<Code("REPEAT", count)>> ELSE <<>>

\* A deduplication that never finds a block in the memo.
DedupeNever(memo, index, blocks, blockData) ==
    LET addr == U16(Len(blocks))
    IN  [memo |-> memo,
         index |-> Append(index, addr),
         blocks |-> blocks \o blockData]

\* encodeTiles lines 58-70: the address of a block's data, and the memo,
\* index and block data after it.
Dedupe(memo, index, blocks, blockData) ==
    IF blockData \in DOMAIN memo
    THEN [memo |-> memo,
          index |-> Append(index, memo[blockData]),
          blocks |-> blocks]
    ELSE LET addr == U16(Len(blocks))
         IN  [memo |-> [d \in DOMAIN memo \cup {blockData} |->
                            IF d = blockData THEN addr ELSE memo[d]],
              index |-> Append(index, addr),
              blocks |-> blocks \o blockData]

\* The end of encodeBlock (lines 214-222) and the rest of the loop body of
\* encodeTiles (lines 58-70).
FinishBlock ==
    /\ dpc = "block"
    /\ bpos = blk.w * blk.h
    /\ LET fin == FinalCodes(repeating, repeatCount)
           pk  == IF fin = <<>> THEN bits ELSE PackCode(fin[1], bits)
           fl  == BitsFlush(pk, data, TRUE)
           dd  == Dedupe(dedupeMemo, indexResult, blockResult, fl.data)
           nxt == LoopAfter(lf, ly, lx)
       IN  /\ bits' = fl.bits
           /\ data' = fl.data
           /\ emitted' = fin
           /\ codes' = codes \o fin
           /\ decoded' = DecodeAll(decoded, fin)
           /\ payloads' = Append(payloads, fl.data)
           /\ dedupeMemo' = dd.memo
           /\ indexResult' = dd.index
           /\ blockResult' = dd.blocks
           /\ lf' = nxt[1] /\ ly' = nxt[2] /\ lx' = nxt[3]
    /\ dpc' = "loop"
    /\ UNCHANGED <<mWidth, mHeight, mFrames, tiles, mIndex16, blk, bpos, dict,
                   prevCode, repeatCount, repeating, result>>
    /\ UNCHANGED adpcmVars
    /\ UNCHANGED uiVars

\* encodeTiles lines 76-82, after the last block.
ScanIndex ==
    /\ dpc = "loop"
    /\ lf >= mFrames
    /\ mIndex16' = ScanIndex16(indexResult)
    /\ dpc' = "encoded"
    /\ UNCHANGED <<mWidth, mHeight, mFrames, tiles, indexResult, blockResult,
                   dedupeMemo, lf, ly, lx, blk, bpos, dict, prevCode,
                   repeatCount, repeating, bits, data, result, codes, emitted,
                   payloads, decoded>>
    /\ UNCHANGED adpcmVars
    /\ UNCHANGED uiVars

\* getResult(result), on an empty result vector.
GetResult ==
    /\ dpc = "encoded"
    /\ result' = ResultIndex \o blockResult
    /\ dpc' = "result"
    /\ UNCHANGED <<mWidth, mHeight, mFrames, tiles, indexResult, blockResult,
                   mIndex16, dedupeMemo, lf, ly, lx, blk, bpos, dict, prevCode,
                   repeatCount, repeating, bits, data, codes, emitted, payloads,
                   decoded>>
    /\ UNCHANGED adpcmVars
    /\ UNCHANGED uiVars

-----------------------------------------------------------------------------
(* 64-bit unsigned values, as four 16-bit limbs, most significant first *)

U64Zero == <<0, 0, 0, 0>>

\* uint64_t error = -1
U64Max == <<65535, 65535, 65535, 65535>>

U64Add(a, b) ==
    LET s4 == a[4] + b[4]
        s3 == a[3] + b[3] + (s4 \div 65536)
        s2 == a[2] + b[2] + (s3 \div 65536)
        s1 == a[1] + b[1] + (s2 \div 65536)
    IN  <<s1 % 65536, s2 % 65536, s3 % 65536, s4 % 65536>>

U64Lt(a, b) ==
    \E k \in 1..4 : a[k] < b[k] /\ \A j \in 1..(k - 1) : a[j] = b[j]

\* e * e in 64-bit math, for an int e of magnitude below 2^20.
U64Square(e) ==
    The({LET hi    == n \div 256
             lo    == n % 256
             mid   == 2 * hi * lo * 256 + lo * lo
             upper == hi * hi + (mid \div 65536)
         IN  <<0, upper \div 65536, upper % 65536, mid % 65536>> :
            n \in {IF e < 0 THEN -e ELSE e}})

\* The product of a 32-bit unsigned u and 0 <= k < 32768, modulo 2^32.
U32Mul(u, k) ==
    LET low == u[2] * k
    IN  <<(u[1] * k + (low \div 65536)) % 65536, low % 65536>>

-----------------------------------------------------------------------------
(* ADPCMEncoder: encodeSample *)

\* The largest step index (audioencoder.h); stepSizeTable has 89 entries.
INDEX_MAX == 88

StepSizeTable ==
    <<7, 8, 9, 10, 11, 12, 13, 14, 16, 17, 19, 21, 23, 25, 28, 31,
      34, 37, 41, 45, 50, 55, 60, 66, 73, 80, 88, 97, 107, 118, 130,
      143, 157, 173, 190, 209, 230, 253, 279, 307, 337, 371, 408, 449,
      494, 544, 598, 658, 724, 796, 876, 963, 1060, 1166, 1282, 1411,
      1552, 1707, 1878, 2066, 2272, 2499, 2749, 3024, 3327, 3660, 4026,
      4428, 4871, 5358, 5894, 6484, 7132, 7845, 8630, 9493, 10442, 11487,
      12635, 13899, 15289, 16818, 18500, 20350, 22385, 24623, 27086, 29794,
      32767>>

\* codeTable, as the ints the 32-bit patterns convert to
\* (0xFFFFFF01 is -255, 0x00000209 is 521, ...).
CodeTable ==
    <<-255, -253, -251, -249, 521, 1035, 1549, 2063,
      -1, -3, -5, -7, 759, 1269, 1779, 2289>>

\* int8_t(x): the low byte of x, as a signed 8-bit value
Int8(x) == IF x % 256 >= 128 THEN (x % 256) - 256 ELSE x % 256

\* int16_t(x): the low 16 bits of x, as a signed 16-bit value
Int16(x) == IF x % 65536 >= 32768 THEN (x % 65536) - 65536 ELSE x % 65536

\* thisDiff with the low byte taken as an unsigned 8-bit multiplier
CandidateDeltaUnsigned(code, step) ==
    U32ToInt(U32Mul(U32(CodeTable[code + 1] % 256), step)) \div 8

\* thisDiff of line 278:
\* int(unsigned(int8_t(codeTable[code])) * unsigned(step)) >> 3.
\* The int8_t is sign-extended to 32 bits, the product is taken modulo 2^32
\* and converted to int, and the int is shifted (arithmetically) by 3.
CandidateDelta(code, step) ==
    The({U32ToInt(product) \div 8 :
            product \in {U32Mul(U32(Int8(CodeTable[code + 1])), step)}})

\* The index adjustment of line 291: codeTable[bestCode] >> 8
IndexAdjust(code) == CodeTable[code + 1] \div 256

\* The comparison with < in place of <=
BetterNybbleStrict(code, thisDiff, bestCode, bestDiff, diff) ==
    IF Max(thisDiff - diff, diff - thisDiff) < Max(bestDiff - diff, diff - bestDiff)
    THEN [code |-> code, diff |-> thisDiff]
    ELSE [code |-> bestCode, diff |-> bestDiff]

\* Lines 279-284: the best code and delta after candidate `code`, whose
\* delta is thisDiff, is compared with the best so far.
BetterNybble(code, thisDiff, bestCode, bestDiff, diff) ==
    IF Max(thisDiff - diff, diff - thisDiff) <= Max(bestDiff - diff, diff - bestDiff)
    THEN [code |-> code, diff |-> thisDiff]
    ELSE [code |-> bestCode, diff |-> bestDiff]

\* The iterations lo..hi of the loop of lines 277-285, in order, entered
\* with bestCode and bestDiff as in `best`.  The range is halved, and the
\* first half's result is a value before the second half starts, so that
\* the evaluation nests 4 deep and not 16.
RECURSIVE BestNybble(_, _, _, _, _)
BestNybble(lo, hi, best, diff, step) ==
    IF lo = hi
    THEN The({BetterNybble(lo, thisDiff, best.code, best.diff, diff) :
                thisDiff \in {CandidateDelta(lo, step)}})
    ELSE The({BestNybble(((lo + hi) \div 2) + 1, hi, half, diff, step) :
                half \in {BestNybble(lo, (lo + hi) \div 2, best, diff, step)}})

\* The prediction clamped from below only
ClampSampleLow(x) == Max(-32768, x)

\* Line 288: the new prediction
ClampSample(x) == Min(32767, Max(-32768, x))

\* The step index kept above its smallest value
ClampIndexFromOne(x) == Min(INDEX_MAX, Max(1, x))

\* Line 292: the new step index
ClampIndex(x) == Min(INDEX_MAX, Max(0, x))

\* Lines 287-294: the state after the best code is applied.
SampleResult(st, step, best) ==
    [state |-> [sample |-> ClampSample(st.sample + best.diff),
                index  |-> ClampIndex(st.index + IndexAdjust(best.code))],
     code  |-> best.code,
     delta |-> best.diff,
     step  |-> step]

\* encodeSample(state, sample): the new state and the nybble returned (and
\* the step and delta it used).
EncodeSample(st, sample) ==
    The({The({SampleResult(st, step, best) :
                best \in {BestNybble(0, 15, [code |-> 0, diff |-> 1048576],
                                     diff, step)}}) :
            diff \in {sample - st.sample}, step \in {StepSizeTable[st.index + 1]}})

-----------------------------------------------------------------------------
(* ADPCMEncoder: encodePair, encodeWithIC *)

PairResultSwapped(r1, r2, s1, s2) ==
    [state |-> r2.state,
     byte  |-> (r2.code + 16 * r1.code) % 256,
     error |-> U64Add(U64Square(r1.state.sample - s1),
                      U64Square(r2.state.sample - s2))]

\* Lines 220-224, from the results r1, r2 of the two encodeSample calls.
PairResult(r1, r2, s1, s2) ==
    [state |-> r2.state,
     byte  |-> (r1.code + 16 * r2.code) % 256,
     error |-> The({U64Add(e1, e2) :
                      e1 \in {U64Square(r1.state.sample - s1)},
                      e2 \in {U64Square(r2.state.sample - s2)}})]

\* encodePair(state, s1, s2, out), lines 216-217: the second sample is
\* encoded from the state the first left.  The new state, the byte pushed and the
\* error returned.
EncodePair(st, s1, s2) ==
    The({The({PairResult(r1, r2, s1, s2) : r2 \in {EncodeSample(r1.state, s2)}}) :
            r1 \in {EncodeSample(st, s1)}})

\* inPtr[k]: the k-th (0-based) little-endian 16-bit sample of the bytes
SampleAt(inp, k) ==
    The({Int16(word) : word \in {inp[2 * k + 1] + 256 * inp[2 * k + 2]}})

\* The header of lines 193-195
HeaderBytes(st) ==
    <<st.sample % 256, (st.sample \div 256) % 256, st.index % 256>>

\* Line 200: one more pair's byte and error.
Accumulate(before, pair) ==
    [state |-> pair.state,
     bytes |-> Append(before.bytes, pair.byte),
     error |-> U64Add(before.error, pair.error)]

\* Lines 187-195: the state, the bytes pushed and the error before the
\* first pair.
HeaderWritten(st) ==
    [state |-> st, bytes |-> HeaderBytes(st), error |-> U64Zero]

\* The iterations lo..hi (1-based) of the loop of lines 197-201, in order,
\* entered with the state, bytes and error of `before`.  The range is
\* halved, the first half's result being a value before the second half
\* starts.
RECURSIVE EncodePairs(_, _, _, _)
EncodePairs(before, inp, lo, hi) ==
    IF lo > hi
    THEN before
    ELSE IF lo = hi
    THEN The({Accumulate(before, pair) :
                pair \in {EncodePair(before.state, SampleAt(inp, 2 * lo - 2),
                                     SampleAt(inp, 2 * lo - 1))}})
    ELSE The({EncodePairs(half, inp, ((lo + hi) \div 2) + 1, hi) :
                half \in {EncodePairs(before, inp, lo, (lo + hi) \div 2)}})

\* Lines 204-207: an odd last sample is paired with itself.
LastPair(pairs, inp, numSamples) ==
    IF numSamples % 2 = 1
    THEN The({Accumulate(pairs, pair) :
                pair \in {EncodePair(pairs.state, SampleAt(inp, numSamples - 1),
                                     SampleAt(inp, numSamples - 1))}})
    ELSE pairs

ResizeKeep(out) == out

\* out.resize(0), line 189
ResizeZero(out) == <<>>

\* encodeWithIC(state, in, out, inBytes): the output vector (bytes), the
\* error returned and the final state.
EncodeWithIC(st, inp, inBytes) ==
    The({LastPair(pairs, inp, inBytes \div 2) :
            pairs \in {EncodePairs(HeaderWritten(st), inp, 1,
                                   (inBytes \div 2) \div 2)}})

\* inBytes of optimizeIC, line 90: at most 100 samples
PrefixBytes(inp) == Min(200, Len(inp))

\* The error optimizeIC measures for initial conditions st
PrefixError(st, inp) == EncodeWithIC(st, inp, PrefixBytes(inp)).error

-----------------------------------------------------------------------------
(* ADPCMEncoder: inputs *)

\* The bytes of a sequence of samples, little-endian
RECURSIVE SampleBytes(_)
SampleBytes(ss) ==
    IF ss = <<>> THEN <<>>
    ELSE <<Head(ss) % 256, (Head(ss) \div 256) % 256>> \o SampleBytes(Tail(ss))

\* Sample values of every short input
SampleVals == {0, -7, 300}

\* Inputs with full-scale swings
SwingInputs ==
    {<<32767, -1, 1000>>, <<-32768, 32767>>, <<32767, -32768>>,
     <<32767, 32767, -32768>>, <<1000, -1000, 1000, -1000>>}

SampleInputs ==
    UNION {[1..n -> SampleVals] : n \in 0..MaxSamples} \cup SwingInputs

\* 200 bytes of zeros: 100 samples of silence
Silence == [k \in 1..200 |-> 0]

\* Every input, every input with a byte left over after its last sample,
\* and 200 bytes of silence
ByteInputs ==
    {SampleBytes(ss) : ss \in SampleInputs}
        \cup {Append(SampleBytes(ss), 86) : ss \in SampleInputs}
        \cup {Silence}

\* What the output vector holds when encode is called
PriorOutputs == {<<>>, <<170, 85, 1, 2>>}

-----------------------------------------------------------------------------
(* UICoordinator: cube vectors, video buffer pointers, the idle coordinator *)

CubeIds == 0..(NumCubeSlots - 1)

\* A _SYSCubeIDVector is modelled as the set of the cube ids whose bits are
\* set. Intrinsic::LZ(id) is the vector with only the bit of id set.
LZ(c) == {c}

\* Intrinsic::CLZ(v), for a vector that is not zero: cube 0 has the highest
\* bit, so the count of leading zeros is the lowest id in the vector.
CLZ(v) == CHOOSE c \in v : \A d \in v : c <= d

\* No cube slot has this id.
SYS_CUBE_ID_INVALID == NumCubeSlots

\* Addresses: 0 is the null pointer, c + 1 the video buffer userspace keeps
\* for cube c, and AvbAddr is &avb.vbuf.
UserBufAddr(c) == c + 1

UserBufAddrs == {UserBufAddr(c) : c \in CubeIds}

AvbAddr == NumCubeSlots + 1

\* Of a _SYSVideoBuffer, the two fields the coordinator copies
VBuf(f, vf) == [flags |-> f, vram |-> [flags |-> vf]]

\* VRAM::init(vbuf) and the memset of line 38
ZeroVBuf == VBuf(0, 0)

\* SysTime::msTicks(ms): time is counted in milliseconds here
msTicks(ms) == ms

\* The stipple is given 200 ms to render, line 88.
StippleMs == 200

NoUiCall == [op |-> "none", cv |-> {}, id |-> SYS_CUBE_ID_INVALID]

UiCall(op, v, c) == [op |-> op, cv |-> v, id |-> c]

NoRet == [poll |-> FALSE, connect |-> {}]

\* The coordinator as constructed (lines 34-40), with no cube around
UiIdle ==
    /\ avb = [cube |-> SYS_CUBE_ID_INVALID, vbuf |-> ZeroVBuf]
    /\ savedVBuf = 0
    /\ stippleDeadline = 0
    /\ uiConnected = {}
    /\ vramPaused = {}
    /\ sendStipple = {}
    /\ sysConnected = {}
    /\ instances = [c \in CubeIds |-> [vbuf |-> 0]]
    /\ userBufs = [a \in UserBufAddrs |-> ZeroVBuf]
    /\ ticks = 0
    /\ upc = "idle"
    /\ uiCall = NoUiCall
    /\ ret = NoRet
    /\ vbufBefore = 0

-----------------------------------------------------------------------------
(* ADPCMEncoder: encode = optimizeIC, then encodeWithIC *)

NoCall == [before |-> [sample |-> 0, index |-> 0], sample |-> 0, code |-> -1,
           delta |-> 0, step |-> 0, deltas |-> [c \in 0..15 |-> 0]]

NoAccepted == <<U64Zero, U64Zero>>

AdpcmIdle ==
    /\ input = <<>>
    /\ state = [sample |-> 0, index |-> 0]
    /\ error = U64Zero
    /\ bestIndex = 0
    /\ output = <<>>
    /\ outBefore = <<>>
    /\ apc = "idle"
    /\ tried = {}
    /\ accepted = NoAccepted
    /\ call = NoCall
    /\ ncalls = 0

DubIdle ==
    /\ mWidth = 0 /\ mHeight = 0 /\ mFrames = 0
    /\ tiles = <<>>
    /\ indexResult = <<>>
    /\ blockResult = <<>>
    /\ mIndex16 = FALSE
    /\ dedupeMemo = <<>>
    /\ lf = 0 /\ ly = 0 /\ lx = 0
    /\ blk = NoBlock
    /\ bpos = 0
    /\ dict = <<>>
    /\ prevCode = Code("INVALID", 0)
    /\ repeatCount = 0
    /\ repeating = FALSE
    /\ bits = <<>>
    /\ data = <<>>
    /\ result = <<>>
    /\ dpc = "idle"
    /\ codes = <<>>
    /\ emitted = <<>>
    /\ payloads = <<>>
    /\ decoded = NoDecoded

\* encode() is entered with its State not yet assigned; optimizeIC assigns
\* both fields before it reads them.
InitADPCM ==
    /\ DubIdle
    /\ UiIdle
    /\ input \in ByteInputs
    /\ state = [sample |-> 0, index |-> 0]
    /\ error = U64Zero
    /\ bestIndex = 0
    /\ output \in PriorOutputs
    /\ outBefore = output
    /\ apc = "encode"
    /\ tried = {}
    /\ accepted = NoAccepted
    /\ call = NoCall
    /\ ncalls = 0

ShortInputTwo(inp) == Len(inp) < 2

\* Line 80: too short to compress
ShortInput(inp) == Len(inp) < 4

\* optimizeIC lines 80-106: a short input ends the optimisation; otherwise
\* the first sample seeds state.sample and the index search starts at 0.
OptimizeBegin ==
    /\ apc = "encode"
    /\ IF ShortInput(input)
       THEN /\ state' = [sample |-> 0, index |-> 0]
            /\ apc' = "optimized"
            /\ UNCHANGED <<error, bestIndex>>
       ELSE /\ state' = [sample |-> Int16(input[1] + 256 * input[2]), index |-> 0]
            /\ error' = U64Max
            /\ bestIndex' = 0
            /\ apc' = "search"
    /\ UNCHANGED <<input, outBefore, output, tried, accepted, call, ncalls>>
    /\ UNCHANGED dubVars
    /\ UNCHANGED uiVars

\* Lines 108-111: a strictly lower error replaces the best so far.
SearchKeep(nextError) ==
    IF U64Lt(nextError, error)
    THEN error' = nextError /\ bestIndex' = state.index
    ELSE UNCHANGED <<error, bestIndex>>

\* One iteration of the loop of lines 106-112.
SearchIndex ==
    /\ apc = "search"
    /\ state.index < INDEX_MAX
    /\ \E nextError \in {PrefixError(state, input)} : SearchKeep(nextError)
    /\ tried' = tried \cup {state.index}
    /\ state' = [state EXCEPT !.index = @ + 1]
    /\ UNCHANGED <<input, outBefore, output, apc, accepted, call, ncalls>>
    /\ UNCHANGED dubVars
    /\ UNCHANGED uiVars

\* The end of the loop, and line 114.
SearchDone ==
    /\ apc = "search"
    /\ ~(state.index < INDEX_MAX)
    /\ state' = [state EXCEPT !.index = bestIndex]
    /\ apc' = "climb"
    /\ UNCHANGED <<input, outBefore, error, bestIndex, output, tried, accepted, call, ncalls>>
    /\ UNCHANGED dubVars
    /\ UNCHANGED uiVars

\* A pass that moves the sample only
ClimbMovesSampleOnly(st) ==
    <<[st EXCEPT !.sample = @ + 1], [st EXCEPT !.sample = @ - 1]>>

\* The moves one pass of the hill climb tries, in order (lines 128-156).
ClimbMoves(st) ==
    <<[st EXCEPT !.sample = @ + 1], [st EXCEPT !.sample = @ - 1]>>
        \o (IF st.index < INDEX_MAX THEN <<[st EXCEPT !.index = @ + 1]>> ELSE <<>>)
        \o (IF st.index > 0 THEN <<[st EXCEPT !.index = @ - 1]>> ELSE <<>>)

\* The first of the moves whose error is below err, and that error; none
\* when no move improves.
RECURSIVE FirstImproving(_, _, _), TryMove(_, _, _, _), TryMoveNotWorse(_, _, _, _)
FirstImproving(moves, inp, err) ==
    IF moves = <<>>
    THEN [found |-> FALSE, state |-> [sample |-> 0, index |-> 0], error |-> err]
    ELSE The({TryMove(moves, nextError, inp, err) :
                nextError \in {PrefixError(Head(moves), inp)}})

TryMoveNotWorse(moves, nextError, inp, err) ==
    IF ~U64Lt(err, nextError)
    THEN [found |-> TRUE, state |-> Head(moves), error |-> nextError]
    ELSE FirstImproving(Tail(moves), inp, err)

TryMove(moves, nextError, inp, err) ==
    IF U64Lt(nextError, err)
    THEN [found |-> TRUE, state |-> Head(moves), error |-> nextError]
    ELSE FirstImproving(Tail(moves), inp, err)

\* One pass of the loop of lines 125-159: the first improving move is taken
\* and the pass restarts; with none, the loop breaks.
ClimbTo(move) ==
    IF move.found
    THEN /\ state' = move.state
         /\ error' = move.error
         /\ accepted' = <<error, move.error>>
         /\ apc' = "climb"
    ELSE /\ apc' = "optimized"
         /\ UNCHANGED <<state, error, accepted>>

ClimbStep ==
    /\ apc = "climb"
    /\ \E move \in {FirstImproving(ClimbMoves(state), input, error)} :
          ClimbTo(move)
    /\ UNCHANGED <<input, outBefore, bestIndex, output, tried, call, ncalls>>
    /\ UNCHANGED dubVars
    /\ UNCHANGED uiVars

\* encode(), line 63: the whole input encoded from the initial conditions.
EncodeAll ==
    /\ apc = "optimized"
    /\ output' = ResizeZero(output) \o EncodeWithIC(state, input, Len(input)).bytes
    /\ apc' = "encoded"
    /\ UNCHANGED <<input, outBefore, state, error, bestIndex, tried, accepted, call, ncalls>>
    /\ UNCHANGED dubVars
    /\ UNCHANGED uiVars

NextADPCM ==
    \/ OptimizeBegin
    \/ SearchIndex
    \/ SearchDone
    \/ ClimbStep
    \/ EncodeAll

SpecADPCM == InitADPCM /\ [][NextADPCM]_vars

\* encode() runs on one thread from its entry to its return: a step that
\* can be taken is taken.  optimizeIC does not touch the output vector, which
\* is empty here, and reads whole samples only (inBytes / 2, line 61), so the
\* inputs are those without a byte left over.
InitFairADPCM == InitADPCM /\ output = <<>> /\ Len(input) % 2 = 0

FairSpecADPCM == InitFairADPCM /\ [][NextADPCM]_vars /\ WF_vars(NextADPCM)

-----------------------------------------------------------------------------
(* PCMEncoder::encode *)

InsertAtBegin(out, inp) == inp \o out

\* out.insert(out.end(), in.begin(), in.end()), line 56
InsertAtEnd(out, inp) == out \o inp

\* encode(in, out) is called with any input and an output vector that is
\* empty or not.
InitPCM ==
    /\ DubIdle
    /\ UiIdle
    /\ input \in ByteInputs
    /\ output \in PriorOutputs
    /\ outBefore = output
    /\ apc = "pcm"
    /\ state = [sample |-> 0, index |-> 0]
    /\ error = U64Zero
    /\ bestIndex = 0
    /\ tried = {}
    /\ accepted = NoAccepted
    /\ call = NoCall
    /\ ncalls = 0

\* PCMEncoder::encode, lines 53-57
PCMEncode ==
    /\ apc = "pcm"
    /\ output' = InsertAtEnd(output, input)
    /\ apc' = "pcmEncoded"
    /\ UNCHANGED <<input, outBefore, state, error, bestIndex, tried, accepted, call, ncalls>>
    /\ UNCHANGED dubVars
    /\ UNCHANGED uiVars

NextPCM == PCMEncode

SpecPCM == InitPCM /\ [][NextPCM]_vars

-----------------------------------------------------------------------------
(* ADPCMEncoder::encodeSample on its own *)

\* Predictor values the calls start from, and the samples they are given
StartSamples == {-32768, 0, 32767}

CallSamples == {-32768, -1, 1, 4000, 32767}

InitSample ==
    /\ DubIdle
    /\ UiIdle
    /\ input = <<>>
    /\ state \in [sample : StartSamples, index : 0..INDEX_MAX]
    /\ error = U64Zero
    /\ bestIndex = 0
    /\ output = <<>>
    /\ outBefore = <<>>
    /\ apc = "sample"
    /\ tried = {}
    /\ accepted = NoAccepted
    /\ call = NoCall
    /\ ncalls = 0

\* The call's effect on the state; `call` records the call: the state it
\* was given, the sample, the code returned, the delta applied, the step and
\* the thisDiff of each iteration of the loop.
Called(sample, r) ==
    /\ state' = r.state
    /\ call' = [before |-> state, sample |-> sample, code |-> r.code,
                delta |-> r.delta, step |-> r.step,
                deltas |-> [c \in 0..15 |-> CandidateDelta(c, r.step)]]

\* encodeSample(state, sample)
EncodeSampleCall ==
    /\ apc = "sample"
    /\ ncalls < MaxCalls
    /\ \E sample \in CallSamples : Called(sample, EncodeSample(state, sample))
    /\ ncalls' = ncalls + 1
    /\ UNCHANGED <<input, outBefore, error, bestIndex, output, apc, tried, accepted>>
    /\ UNCHANGED dubVars
    /\ UNCHANGED uiVars

NextSample == EncodeSampleCall

SpecSample == InitSample /\ [][NextSample]_vars

-----------------------------------------------------------------------------
(* UICoordinator *)

\* The coordinator runs on one thread. Each action below is a stretch of a
\* call between two of its idle() waits or atomic updates of the CubeSlots
\* vectors; radio interrupts and the other tasks act in between.

SetVideoBufferNull(inst, c, ptr) == [inst EXCEPT ![c].vbuf = 0]

\* CubeSlot::setVideoBuffer(ptr) on slot c, lines 158 and 196
SetVideoBuffer(inst, c, ptr) == [inst EXCEPT ![c].vbuf = ptr]

\* isAttached(), as tested on line 185
isAttached == avb.cube # SYS_CUBE_ID_INVALID

DeadlineReachedAlways(now, deadline) == TRUE

\* The exit of the loops of lines 109 and 136
DeadlineReached(now, deadline) == ~(now < deadline)

\* The exit of the loop of line 69
StippleSent(v) == (v \cap sendStipple \cap sysConnected) = {}

\* detach(), lines 183-199
Detach ==
    IF avb.cube = SYS_CUBE_ID_INVALID
    THEN UNCHANGED <<avb, savedVBuf, instances, userBufs>>
    ELSE /\ userBufs' = IF savedVBuf # 0
                        THEN [userBufs EXCEPT ![savedVBuf] =
                                  VBuf(avb.vbuf.flags, avb.vbuf.vram.flags)]
                        ELSE userBufs
         /\ instances' = SetVideoBuffer(instances, avb.cube, savedVBuf)
         /\ avb' = [avb EXCEPT !.cube = SYS_CUBE_ID_INVALID]
         /\ savedVBuf' = 0

\* A call of detach()
DetachCall ==
    /\ upc = "idle"
    /\ Detach
    /\ uiCall' = UiCall("detach", {}, avb.cube)
    /\ ret' = NoRet
    /\ UNCHANGED <<stippleDeadline, uiConnected, vramPaused, sendStipple,
                   sysConnected, ticks, upc, vbufBefore>>
    /\ UNCHANGED dubVars
    /\ UNCHANGED adpcmVars

\* attachToCube(c), line 129: the detach, up to the wait of line 136
AttachToCube(c) ==
    /\ upc = "idle"
    /\ Detach
    /\ vbufBefore' = instances'[c].vbuf
    /\ uiCall' = UiCall("attachToCube", {}, c)
    /\ ret' = NoRet
    /\ upc' = "attach_wait"
    /\ UNCHANGED <<stippleDeadline, uiConnected, vramPaused, sendStipple,
                   sysConnected, ticks>>
    /\ UNCHANGED dubVars
    /\ UNCHANGED adpcmVars

\* avb.vbuf after lines 149-155
AttachedVBuf(saved) ==
    IF saved # 0
    THEN VBuf(userBufs[saved].flags, userBufs[saved].vram.flags)
    ELSE ZeroVBuf

\* attachToCube, lines 136-162, once the stipple deadline has passed; when
\* pollForAttach made the call, its return of line 243
AttachSwap ==
    /\ upc = "attach_wait"
    /\ DeadlineReached(ticks, stippleDeadline)
    /\ savedVBuf' = instances[uiCall.id].vbuf
    /\ avb' = [cube |-> uiCall.id, vbuf |-> AttachedVBuf(savedVBuf')]
    /\ instances' = SetVideoBuffer(instances, uiCall.id, AvbAddr)
    /\ vramPaused' = vramPaused \ LZ(uiCall.id)
    /\ ret' = [ret EXCEPT !.poll = (uiCall.op = "pollForAttach")]
    /\ upc' = "idle"
    /\ UNCHANGED <<stippleDeadline, uiConnected, sendStipple, sysConnected,
                   userBufs, ticks, uiCall, vbufBefore>>
    /\ UNCHANGED dubVars
    /\ UNCHANGED adpcmVars

\* pollForAttach(), lines 227-247, up to the wait inside attachToCube
PollForAttach ==
    /\ upc = "idle"
    /\ IF isAttached /\ (LZ(avb.cube) \cap sysConnected) = {}
       THEN Detach
       ELSE UNCHANGED <<avb, savedVBuf, instances, userBufs>>
    /\ ret' = NoRet
    /\ IF avb'.cube = SYS_CUBE_ID_INVALID /\ uiConnected # {}
       THEN /\ uiCall' = UiCall("pollForAttach", {}, CLZ(uiConnected))
            /\ vbufBefore' = instances'[CLZ(uiConnected)].vbuf
            /\ upc' = "attach_wait"
       ELSE /\ uiCall' = UiCall("pollForAttach", {}, SYS_CUBE_ID_INVALID)
            /\ UNCHANGED <<vbufBefore, upc>>
    /\ UNCHANGED <<stippleDeadline, uiConnected, vramPaused, sendStipple,
                   sysConnected, ticks>>
    /\ UNCHANGED dubVars
    /\ UNCHANGED adpcmVars

\* connectCubes(), lines 119-125
ConnectCubes ==
    /\ upc = "idle"
    /\ uiConnected' = sysConnected
    /\ ret' = [poll |-> FALSE, connect |-> sysConnected \ uiConnected]
    /\ uiCall' = UiCall("connectCubes", {}, SYS_CUBE_ID_INVALID)
    /\ UNCHANGED <<avb, savedVBuf, stippleDeadline, vramPaused, sendStipple,
                   sysConnected, instances, userBufs, ticks, upc, vbufBefore>>
    /\ UNCHANGED dubVars
    /\ UNCHANGED adpcmVars

\* stippleCubes(v), lines 43-50: the return of line 46, or the wait for the
\* cubes to finish drawing
StippleCubes(v) ==
    /\ upc = "idle"
    /\ uiCall' = UiCall("stippleCubes", v, SYS_CUBE_ID_INVALID)
    /\ ret' = NoRet
    /\ upc' = IF v = {} THEN "idle" ELSE "stipple_pause"
    /\ UNCHANGED <<avb, savedVBuf, stippleDeadline, uiConnected, vramPaused,
                   sendStipple, sysConnected, instances, userBufs, ticks,
                   vbufBefore>>
    /\ UNCHANGED dubVars
    /\ UNCHANGED adpcmVars

\* Line 53
StipplePause ==
    /\ upc = "stipple_pause"
    /\ vramPaused' = vramPaused \cup uiCall.cv
    /\ upc' = "stipple_send"
    /\ UNCHANGED <<avb, savedVBuf, stippleDeadline, uiConnected, sendStipple,
                   sysConnected, instances, userBufs, ticks, uiCall, ret, vbufBefore>>
    /\ UNCHANGED dubVars
    /\ UNCHANGED adpcmVars

\* Line 63
StippleSend ==
    /\ upc = "stipple_send"
    /\ sendStipple' = sendStipple \cup uiCall.cv
    /\ upc' = "stipple_wait"
    /\ UNCHANGED <<avb, savedVBuf, stippleDeadline, uiConnected, vramPaused,
                   sysConnected, instances, userBufs, ticks, uiCall, ret, vbufBefore>>
    /\ UNCHANGED dubVars
    /\ UNCHANGED adpcmVars

\* Lines 69-88: the loop is left, the deadline is set
StippleReturn ==
    /\ upc = "stipple_wait"
    /\ StippleSent(uiCall.cv)
    /\ stippleDeadline' = ticks + msTicks(StippleMs)
    /\ upc' = "idle"
    /\ UNCHANGED <<avb, savedVBuf, uiConnected, vramPaused, sendStipple,
                   sysConnected, instances, userBufs, ticks, uiCall, ret, vbufBefore>>
    /\ UNCHANGED dubVars
    /\ UNCHANGED adpcmVars

\* restoreCubes(v), lines 91-101: the return of line 94, or the stipple is
\* cancelled and the coordinator detached, up to the wait of line 109
RestoreCubes(v) ==
    /\ upc = "idle"
    /\ uiCall' = UiCall("restoreCubes", v, SYS_CUBE_ID_INVALID)
    /\ ret' = NoRet
    /\ IF v = {}
       THEN UNCHANGED <<sendStipple, avb, savedVBuf, instances, userBufs, upc>>
       ELSE /\ sendStipple' = sendStipple \ v
            /\ IF isAttached /\ (v \cap LZ(avb.cube)) # {}
               THEN Detach
               ELSE UNCHANGED <<avb, savedVBuf, instances, userBufs>>
            /\ upc' = "restore_wait"
    /\ UNCHANGED <<stippleDeadline, uiConnected, vramPaused, sysConnected,
                   ticks, vbufBefore>>
    /\ UNCHANGED dubVars
    /\ UNCHANGED adpcmVars

\* Lines 109-116, once the stipple deadline has passed
RestoreResume ==
    /\ upc = "restore_wait"
    /\ DeadlineReached(ticks, stippleDeadline)
    /\ vramPaused' = vramPaused \ uiCall.cv
    /\ upc' = "idle"
    /\ UNCHANGED <<avb, savedVBuf, stippleDeadline, uiConnected, sendStipple,
                   sysConnected, instances, userBufs, ticks, uiCall, ret, vbufBefore>>
    /\ UNCHANGED dubVars
    /\ UNCHANGED adpcmVars

\* A cube joins CubeSlots::sysConnected
CubeConnect(c) ==
    /\ c \notin sysConnected
    /\ sysConnected' = sysConnected \cup {c}
    /\ UNCHANGED <<avb, savedVBuf, stippleDeadline, uiConnected, vramPaused,
                   sendStipple, instances, userBufs, ticks, upc, uiCall, ret, vbufBefore>>
    /\ UNCHANGED dubVars
    /\ UNCHANGED adpcmVars

\* A cube leaves CubeSlots::sysConnected
CubeDisconnect(c) ==
    /\ c \in sysConnected
    /\ sysConnected' = sysConnected \ {c}
    /\ UNCHANGED <<avb, savedVBuf, stippleDeadline, uiConnected, vramPaused,
                   sendStipple, instances, userBufs, ticks, upc, uiCall, ret, vbufBefore>>
    /\ UNCHANGED dubVars
    /\ UNCHANGED adpcmVars

\* The radio sends a connected cube the stipple packet asked for (the
\* comments of lines 55-68)
RadioStipple(c) ==
    /\ c \in sendStipple \cap sysConnected
    /\ sendStipple' = sendStipple \ {c}
    /\ UNCHANGED <<avb, savedVBuf, stippleDeadline, uiConnected, vramPaused,
                   sysConnected, instances, userBufs, ticks, upc, uiCall, ret, vbufBefore>>
    /\ UNCHANGED dubVars
    /\ UNCHANGED adpcmVars

\* 100 ms pass. The clock is followed up to the deadline: past it, more
\* time changes nothing the coordinator reads.
Tick ==
    /\ ticks + msTicks(100) <= MaxTime
    /\ ticks < stippleDeadline
    /\ ticks' = ticks + msTicks(100)
    /\ UNCHANGED <<avb, savedVBuf, stippleDeadline, uiConnected, vramPaused,
                   sendStipple, sysConnected, instances, userBufs, upc, uiCall,
                   ret, vbufBefore>>
    /\ UNCHANGED dubVars
    /\ UNCHANGED adpcmVars

\* The coordinator as constructed (lines 34-40); any of the cubes are
\* connected, and userspace has given the even cubes a video buffer and the
\* odd ones none.
InitUI ==
    /\ DubIdle
    /\ AdpcmIdle
    /\ avb = [cube |-> SYS_CUBE_ID_INVALID, vbuf |-> ZeroVBuf]
    /\ savedVBuf = 0
    /\ stippleDeadline = 0
    /\ uiConnected = {}
    /\ vramPaused = {}
    /\ sendStipple = {}
    /\ sysConnected \in SUBSET CubeIds
    /\ instances = [c \in CubeIds |-> [vbuf |-> IF c % 2 = 0 THEN UserBufAddr(c) ELSE 0]]
    /\ userBufs = [a \in UserBufAddrs |-> VBuf(a, 2 * a)]
    /\ ticks = 0
    /\ upc = "idle"
    /\ uiCall = NoUiCall
    /\ ret = NoRet
    /\ vbufBefore = 0

\* The vectors stippleCubes and restoreCubes are called with: no cube, the
\* first cube, every cube
CallVectors == {{}, LZ(0), CubeIds}

NextUI ==
    \/ \E v \in CallVectors : StippleCubes(v)
    \/ StipplePause
    \/ StippleSend
    \/ StippleReturn
    \/ \E v \in CallVectors : RestoreCubes(v)
    \/ RestoreResume
    \/ ConnectCubes
    \/ \E c \in CubeIds : AttachToCube(c)
    \/ AttachSwap
    \/ DetachCall
    \/ PollForAttach
    \/ \E c \in CubeIds : CubeConnect(c)
    \/ \E c \in CubeIds : CubeDisconnect(c)
    \/ \E c \in CubeIds : RadioStipple(c)
    \/ Tick

SpecUI == InitUI /\ [][NextUI]_vars

-----------------------------------------------------------------------------
(* The DUB encoder's specification *)

Init == DubInit /\ AdpcmIdle /\ UiIdle

Next ==
    \/ BeginBlock
    \/ EncodeTile
    \/ FinishBlock
    \/ ScanIndex
    \/ GetResult

Spec == Init /\ [][Next]_vars

-----------------------------------------------------------------------------
(* Claims about the DUB encoder (under Spec) *)

\* The tiles of block b, in row-major order.
BlockTiles(b) == [n \in 1..(b.w * b.h) |-> BlockTile(b, n - 1)]

BlockFinished == dpc # "block" /\ blk.w > 0

\* C1: once encodeBlock has returned, the reference decoder (DELTA, REF,
\* REPEAT as above), fed the codes the block packed, has produced exactly the
\* block's tiles in row-major order.
C1_RoundTrip ==
    BlockFinished => decoded.out = BlockTiles(blk)

\* A finished block of at least five tiles whose codes hold a DELTA, a REF
\* and a REPEAT of at least one, and decode to the block.
C1_Witness ==
    /\ BlockFinished
    /\ blk.w * blk.h >= 5
    /\ \E i \in 1..Len(codes) : codes[i].type = "REPEAT" /\ codes[i].value >= 1
    /\ \E i \in 1..Len(codes) : codes[i].type = "REF"
    /\ \E i \in 2..Len(codes) : codes[i].type = "DELTA" /\ codes[i].value < 0
    /\ decoded.out = BlockTiles(blk)

AfterEncodeTiles == dpc \in {"encoded", "result"}

\* The first block with the payload of block i (1-based).
FirstOccurrence(i) ==
    CHOOSE k \in 1..i :
        /\ payloads[k] = payloads[i]
        /\ \A j \in 1..(k - 1) : payloads[j] # payloads[i]

\* The payloads of the first n blocks, each distinct one once, in the order
\* of first occurrence.
RECURSIVE DistinctPayloads(_)
DistinctPayloads(n) ==
    IF n = 0 THEN <<>>
    ELSE IF FirstOccurrence(n) = n
         THEN DistinctPayloads(n - 1) \o payloads[n]
         ELSE DistinctPayloads(n - 1)

\* C2: after encodeTiles, two blocks have the same index offset exactly when
\* their payloads are identical; a block's offset is where the first block
\* with its payload starts; and the block data is the distinct payloads,
\* each once, in first-occurrence order.
C2_DedupExact ==
    AfterEncodeTiles =>
        /\ Len(indexResult) = Len(payloads)
        /\ \A i, j \in 1..Len(indexResult) :
              (indexResult[i] = indexResult[j]) <=> (payloads[i] = payloads[j])
        /\ \A i \in 1..Len(indexResult) :
              indexResult[i] = Len(DistinctPayloads(FirstOccurrence(i) - 1))
        /\ blockResult = DistinctPayloads(Len(payloads))

\* An encoded image with a duplicated block after a different one.
C2_Witness ==
    /\ AfterEncodeTiles
    /\ \E i, j, k \in 1..Len(indexResult) :
          /\ i < j /\ j < k
          /\ payloads[i] # payloads[j]
          /\ payloads[k] = payloads[j]
          /\ indexResult[k] = indexResult[j]
          /\ indexResult[i] # indexResult[j]
    /\ blockResult = DistinctPayloads(Len(payloads))

\* The word of the output that holds index entry i (0-based).
SlotWord(i) == IF mIndex16 THEN i ELSE i \div 2

\* Index entry i (0-based) as stored in the output.
StoredEntry(i) ==
    IF mIndex16 THEN result[i + 1]
    ELSE IF i % 2 = 0 THEN result[(i \div 2) + 1] % 256
                      ELSE result[(i \div 2) + 1] \div 256

\* C3: after encodeTiles with isTooLarge() false, every packIndex(i) is the
\* exact (non-negative) value indexSize + offset - nextWord, fits the index
\* width, and, added to the word after entry i's slot, is the position in the
\* output of the first word of block i's payload, inside the block data;
\* getResult stores it unchanged.
C3_IndexPointers ==
    (AfterEncodeTiles /\ ~IsTooLarge) =>
        \A i \in 0..(Len(indexResult) - 1) :
            LET exact  == GetIndexSize + indexResult[i + 1] - NextWordOf(mIndex16, i)
                packed == U32ToInt(PackIndex(i))
                target == SlotWord(i) + 1 + packed
            IN  /\ exact >= 0
                /\ packed = exact
                /\ packed < (IF mIndex16 THEN 65536 ELSE 256)
                /\ NextWordOf(mIndex16, i) + packed
                       = GetIndexSize + indexResult[i + 1]
                /\ target >= GetIndexSize
                /\ target = GetIndexSize
                              + Len(DistinctPayloads(FirstOccurrence(i + 1) - 1))
                /\ dpc = "result" =>
                      /\ StoredEntry(i) = packed
                      /\ target + Len(payloads[i + 1]) <= Len(result)
                      /\ SubSeq(result, target + 1, target + Len(payloads[i + 1]))
                             = payloads[i + 1]

\* An output with at least three index entries, one of them a duplicate in
\* an odd slot of an 8-bit index, and one with a 16-bit index.
C3_Witness ==
    /\ dpc = "result"
    /\ ~IsTooLarge
    /\ ~mIndex16
    /\ Len(indexResult) >= 3
    /\ \E i \in 1..Len(indexResult) :
          /\ i % 2 = 0
          /\ FirstOccurrence(i) < i
          /\ indexResult[i] > 0

\* C4: after encodeTiles, isIndex16() is true exactly when some block's
\* packed index under the 8-bit hypothesis,
\* (blockCount+1)/2 + offset[i] - (i+2)/2, is at least 256.
C4_IndexWidth ==
    AfterEncodeTiles =>
        (IsIndex16 <=>
            \E i \in 0..(Len(indexResult) - 1) :
                ((Len(indexResult) + 1) \div 2) + indexResult[i + 1]
                    - ((i + 2) \div 2) >= 256)

\* An encoded image that needs the 16-bit index.
C4_Witness ==
    /\ AfterEncodeTiles
    /\ IsIndex16
    /\ \E i \in 1..Len(indexResult) : indexResult[i] >= 256

\* The next iteration of encodeBlock begins a run: no run is active and the
\* tile's code equals the previous tile's.
RunStarts ==
    /\ dpc = "block"
    /\ bpos < blk.w * blk.h
    /\ ~repeating
    /\ FindBestCode(dict, BlockTile(blk, bpos)).type = prevCode.type
    /\ FindBestCode(dict, BlockTile(blk, bpos)).value = prevCode.value

BitsWritten == Len(bits) + 16 * Len(data)

\* C5 as stated: the iteration that begins a run sets repeating and zeroes
\* repeatCount, and packs nothing for the tile.
C5_RunStartSilent ==
    [][RunStarts =>
          /\ repeating' /\ repeatCount' = 0
          /\ emitted' = <<>>
          /\ BitsWritten' = BitsWritten]_vars

\* C5, amended: the iteration that begins a run sets repeating and zeroes
\* repeatCount, and packs the tile's code (the second of the two identical
\* codes) into the bit buffer as usual.
C5_RunStartEmits ==
    [][RunStarts =>
          /\ repeating' /\ repeatCount' = 0
          /\ emitted' = <<prevCode>>
          /\ prevCode' = prevCode
          /\ codes' = Append(codes, prevCode)
          /\ BitsWritten' = BitsWritten + CodeLen(prevCode)]_vars

\* A run has just begun: the last two codes packed are identical.
C5_Witness ==
    /\ dpc = "block"
    /\ repeating /\ repeatCount = 0
    /\ emitted = <<prevCode>>
    /\ Len(codes) >= 2
    /\ codes[Len(codes)] = codes[Len(codes) - 1]

-----------------------------------------------------------------------------
(* Claims about encodeSample (under SpecSample) *)

Abs(x) == IF x < 0 THEN -x ELSE x

InRange(st) ==
    /\ st.sample >= -32768 /\ st.sample <= 32767
    /\ st.index >= 0 /\ st.index <= 88

\* C6: from a state with sample in [-32768, 32767] and index in [0, 88],
\* encodeSample of any sample leaves the state with sample in
\* [-32768, 32767] and index in [0, 88]; so every call of a chain indexes the
\* step-size table within 0..88.
C6_StateRange ==
    /\ InRange(state)
    /\ ncalls > 0 => InRange(call.before)

\* A call has clamped the prediction at the top, and a call has clamped the
\* index at the top.
C6_Witness ==
    /\ ncalls > 0
    /\ \/ call.before.sample + call.delta > 32767 /\ state.sample = 32767
       \/ call.before.sample + call.delta < -32768 /\ state.sample = -32768
    /\ call.before.index + IndexAdjust(call.code) > 88
    /\ state.index = 88

\* |candidateDelta(c) - diff| of the recorded call
CallError(c) == Abs(call.deltas[c] - (call.sample - call.before.sample))

\* C9: the code encodeSample returns minimises |candidateDelta(c) - diff|
\* over the 16 codes, diff = input - predictor; it is the highest-numbered
\* of the codes with that minimal error; the predictor becomes the old one
\* plus that code's delta (clamped) and the index the old one plus that
\* code's adjustment (clamped).
C9_CodeChoice ==
    ncalls > 0 =>
        /\ call.code \in 0..15
        /\ \A c \in 0..15 : CallError(call.code) <= CallError(c)
        /\ \A c \in 0..15 : c > call.code => CallError(call.code) < CallError(c)
        /\ call.delta = call.deltas[call.code]
        /\ state.sample =
              Min(32767, Max(-32768, call.before.sample + call.deltas[call.code]))
        /\ state.index =
              Min(88, Max(0, call.before.index + (CodeTable[call.code + 1] \div 256)))

\* A call in which a lower-numbered code had the same minimal error.
C9_Witness ==
    /\ ncalls > 0
    /\ \E c \in 0..15 : c < call.code /\ CallError(c) = CallError(call.code)

\* The low byte of code c's table entry
LowByte(c) == CodeTable[c + 1] % 256

\* C10 as stated: each candidate delta is the low byte as an unsigned 8-bit
\* multiplier, times step modulo 2^32, shifted right by 3 as unsigned, then
\* reinterpreted as signed.  (The product is below 2^23, so neither the
\* modulus nor the reinterpretation changes it.)
C10_UnsignedShift ==
    ncalls > 0 =>
        \A c \in 0..15 : call.deltas[c] = (LowByte(c) * call.step) \div 8

\* C10, amended: each candidate delta is the low byte taken as a signed
\* 8-bit multiplier m, times step, the product as a signed 32-bit integer
\* shifted right arithmetically by 3: floor(m * step / 8), negative for the
\* codes 8..15.
C10_SignedShift ==
    ncalls > 0 =>
        \A c \in 0..15 :
            call.deltas[c] =
                ((IF LowByte(c) >= 128 THEN LowByte(c) - 256 ELSE LowByte(c))
                     * call.step) \div 8

\* A call with the largest step that chose a code with a negative delta
\* not a multiple of the step's eighth.
C10_Witness ==
    /\ ncalls > 0
    /\ call.step = 32767
    /\ call.code >= 8
    /\ call.delta < 0
    /\ call.delta * 8 # (LowByte(call.code) - 256) * call.step

-----------------------------------------------------------------------------
(* Claims about optimizeIC (under SpecADPCM) *)

\* optimizeIC has just handed the searched index to the hill climb.
ClimbEntry == apc = "climb" /\ accepted = NoAccepted

\* The prefix error of initial index i with the sample of the state
ErrorAtIndex(i) == PrefixError([sample |-> state.sample, index |-> i], input)

\* C7: for an input of at least 4 bytes, the search has evaluated every
\* initial index in 0..88 with the sample seeded from the first input
\* sample, and the index handed to the hill climb has the lowest prefix
\* error, the smallest such index on ties.
C7_SearchAllIndices ==
    ClimbEntry =>
        /\ state.sample = Int16(input[1] + 256 * input[2])
        /\ tried = 0..88
        /\ \A i \in 0..88 : ~U64Lt(ErrorAtIndex(i), ErrorAtIndex(state.index))
        /\ \A i \in 0..88 :
              ErrorAtIndex(i) = ErrorAtIndex(state.index) => state.index <= i

\* C8: when optimizeIC returns for an input of at least 4 bytes, the index
\* is in [0, 88] and none of the unit moves from the returned state
\* (sample+1, sample-1, index+1 when index < 88, index-1 when index > 0) has
\* a strictly lower prefix error; and every move the climb accepted strictly
\* lowered the prefix error.
C8_LocalMinimum ==
    /\ [](apc = "optimized" /\ Len(input) >= 4 =>
            /\ state.index >= 0 /\ state.index <= 88
            /\ ~U64Lt(PrefixError([state EXCEPT !.sample = @ + 1], input),
                      PrefixError(state, input))
            /\ ~U64Lt(PrefixError([state EXCEPT !.sample = @ - 1], input),
                      PrefixError(state, input))
            /\ state.index < 88 =>
                  ~U64Lt(PrefixError([state EXCEPT !.index = @ + 1], input),
                         PrefixError(state, input))
            /\ state.index > 0 =>
                  ~U64Lt(PrefixError([state EXCEPT !.index = @ - 1], input),
                         PrefixError(state, input)))
    /\ [][apc = "climb" /\ state' # state =>
            U64Lt(PrefixError(state', input), PrefixError(state, input))]_vars

\* optimizeIC has returned after a climb that accepted a move and ended at
\* an index with neighbours on both sides.
C8_Witness ==
    /\ apc = "optimized"
    /\ Len(input) >= 4
    /\ accepted # NoAccepted
    /\ state.index > 0 /\ state.index < 88

-----------------------------------------------------------------------------
(* Claims about encodeWithIC (under SpecADPCM) *)

\* ADPCMEncoder::encode has returned.
Encoded == apc = "encoded"

\* C11: whatever the output vector held before, after encode of an n-byte
\* input it holds exactly 3 header bytes followed by ceil(floor(n/2)/2)
\* body bytes; a byte left over after the last sample changes nothing.
C11_OutputLength ==
    Encoded =>
        /\ Len(output) = 3 + ((Len(input) \div 2) + 1) \div 2
        /\ SubSeq(output, 1, 3) = HeaderBytes(state)
        /\ Len(input) % 2 = 1 =>
              output = EncodeWithIC(state, SubSeq(input, 1, Len(input) - 1),
                                    Len(input) - 1).bytes

\* encode has returned for an input of two samples and a byte left over,
\* called with an output vector that held bytes.
C11_Witness ==
    /\ Encoded
    /\ Len(input) = 5
    /\ outBefore # <<>>

\* The samples in the order encodeWithIC hands them to encodeSample: the
\* input's samples, the last one a second time when their number is odd.
SamplesEncoded(inp) ==
    [i \in 1..(2 * (((Len(inp) \div 2) + 1) \div 2)) |->
        SampleAt(inp, Min(i, Len(inp) \div 2) - 1)]

\* No encodeSample call yet: the state of the header
ChainStart(st) == [state |-> st, codes |-> <<>>, predicted |-> <<>>]

\* One encodeSample call appended to a chain of calls: the state it left,
\* the codes returned and the predictor after each call
ChainStep(acc, r) ==
    [state |-> r.state,
     codes |-> Append(acc.codes, r.code),
     predicted |-> Append(acc.predicted, r.state.sample)]

\* The samples ss[lo..hi] encoded one after the other, each from the state
\* the one before left: the state and the codes returned.
RECURSIVE SampleChain(_, _, _, _)
SampleChain(acc, ss, lo, hi) ==
    IF lo > hi
    THEN acc
    ELSE IF lo = hi
    THEN ChainStep(acc, EncodeSample(acc.state, ss[lo]))
    ELSE The({SampleChain(half, ss, ((lo + hi) \div 2) + 1, hi) :
                half \in {SampleChain(acc, ss, lo, (lo + hi) \div 2)}})

\* The body bytes of out hold the codes two per byte, the earlier one in
\* bits 0..3.
PairedCodes(out, chain) ==
    /\ Len(out) = 3 + Len(chain) \div 2
    /\ \A k \in 1..(Len(chain) \div 2) :
          /\ out[3 + k] % 16 = chain[2 * k - 1]
          /\ out[3 + k] \div 16 = chain[2 * k]

\* C12: the body bytes hold the codes of the samples in input order, two
\* per byte, the first in bits 0..3 and the second in bits 4..7, every
\* sample encoded from the state its predecessor left (starting from the
\* header's state); with an odd number of samples the last byte holds the
\* last sample encoded twice in succession.
C12_Pairing ==
    Encoded =>
        PairedCodes(output,
                    SampleChain(ChainStart(state),
                                SamplesEncoded(input), 1,
                                Len(SamplesEncoded(input))).codes)

\* encode has returned for three samples: a byte whose two nybbles differ,
\* and a last byte for the odd sample, whose two codes differ too.
C12_Witness ==
    /\ Encoded
    /\ Len(input) \div 2 = 3
    /\ Len(output) = 5
    /\ output[4] % 16 # output[4] \div 16
    /\ output[5] % 16 # output[5] \div 16

\* C13: for an input of fewer than 4 bytes no initial condition is searched
\* for or climbed to, and the output is exactly the header 0, 0, 0 followed
\* by no body byte (0 or 1 input bytes) or by exactly one body byte, the
\* single sample paired with itself (2 or 3 input bytes).
C13_ShortInput ==
    Encoded /\ Len(input) < 4 =>
        /\ tried = {}
        /\ accepted = NoAccepted
        /\ IF Len(input) < 2
           THEN output = <<0, 0, 0>>
           ELSE output = <<0, 0, 0,
                           EncodePair([sample |-> 0, index |-> 0],
                                      SampleAt(input, 0),
                                      SampleAt(input, 0)).byte>>

\* encode has returned for one sample and a byte left over, with a body byte
\* that is not zero.
C13_Witness ==
    /\ Encoded
    /\ Len(input) = 3
    /\ Len(output) = 4
    /\ output[4] # 0

\* Every predictor of the sequence is 0, and there are n of them.
StaysZero(predicted, n) ==
    /\ Len(predicted) = n
    /\ \A i \in 1..n : predicted[i] = 0

\* C18: for 200 zero bytes the header is sample_0 = 0, index_0 = 0, the body
\* has 50 bytes, the predictor is 0 after every sample and the prefix error
\* of the initial condition is 0.
C18_Silence ==
    Encoded /\ input = Silence =>
        /\ state = [sample |-> 0, index |-> 0]
        /\ SubSeq(output, 1, 3) = <<0, 0, 0>>
        /\ Len(output) = 3 + 50
        /\ StaysZero(SampleChain(ChainStart(state), SamplesEncoded(input),
                                 1, 100).predicted, 100)
        /\ PrefixError(state, input) = U64Zero

\* encode has returned for the silence, and the index search and the climb
\* have run.
C18_Witness ==
    /\ Encoded
    /\ input = Silence
    /\ tried # {}
    /\ Len(output) > 3

-----------------------------------------------------------------------------
(* Claims about PCMEncoder::encode (under SpecPCM) *)

\* PCMEncoder::encode has returned.
PCMEncoded == apc = "pcmEncoded"

\* C19 as stated: after PCMEncoder::encode(in, out) the output holds
\* exactly the input bytes, in order, unchanged, and nothing else.
C19_OnlyInput == PCMEncoded => output = input

\* C19: after PCMEncoder::encode(in, out) the output holds what it held
\* before the call followed by exactly the input bytes, in order and
\* unchanged; it holds exactly the input bytes when it was empty before.
C19_AppendsInput ==
    PCMEncoded =>
        /\ Len(output) = Len(outBefore) + Len(input)
        /\ SubSeq(output, 1, Len(outBefore)) = outBefore
        /\ SubSeq(output, Len(outBefore) + 1, Len(output)) = input
        /\ outBefore = <<>> => output = input

\* encode has returned for an input that is not empty, called with an
\* output vector that held bytes.
C19_Witness ==
    /\ PCMEncoded
    /\ input # <<>>
    /\ outBefore # <<>>

-----------------------------------------------------------------------------
(* Claims about the index and the result of the DUB encoder (under Spec) *)

\* ceil(a / b)
CeilDiv(a, b) == IF a % b = 0 THEN a \div b ELSE (a \div b) + 1

\* The n-th block (0-based) in (frame, block-row, block-column) order: its
\* origin and its size, 8 or what is left of the width and of the height.
NthBlock(n) ==
    LET cols  == CeilDiv(mWidth, 8)
        rows  == CeilDiv(mHeight, 8)
        frame == n \div (cols * rows)
        row   == (n % (cols * rows)) \div cols
        col   == n % cols
    IN  [f |-> frame, y |-> 8 * row, x |-> 8 * col,
         w |-> Min(8, mWidth - 8 * col),
         h |-> Min(8, mHeight - 8 * row)]

\* C14: after encodeTiles on a fresh encoder the index has exactly
\* getNumBlocks() = ceil(width/8) * ceil(height/8) * frames entries, one per
\* block in (frame, block-row, block-column) order (the block encoded when
\* the index has n entries is the n-th of that order and adds one entry),
\* each block min(8, remaining width) wide and min(8, remaining height) high.
C14_IndexEntries ==
    /\ Len(indexResult) = Len(payloads)
    /\ dpc = "block" => blk = NthBlock(Len(indexResult))
    /\ AfterEncodeTiles =>
          /\ Len(indexResult) = GetNumBlocks
          /\ GetNumBlocks = CeilDiv(mWidth, 8) * CeilDiv(mHeight, 8) * mFrames

\* encodeTiles has returned for a 9 by 9 image: four blocks, the last one a
\* single tile.
C14_Witness ==
    /\ AfterEncodeTiles
    /\ mWidth = 9 /\ mHeight = 9
    /\ Len(indexResult) = 4
    /\ blk = [f |-> 0, y |-> 8, x |-> 8, w |-> 1, h |-> 1]

\* getResult has returned.
ResultWritten == dpc = "result"

\* C15: getResult (on an empty vector) writes exactly getIndexSize() index
\* words, so that the assertion of line 140 holds, followed by the block
\* data unchanged; the number of words is getCompressedWords(); with an
\* 8-bit index and an odd number of blocks the last index byte is zero; and
\* isTooLarge() is true exactly when the index size plus the block data
\* size is at least 65536.
C15_ResultSize ==
    /\ ResultWritten =>
          /\ Len(ResultIndex) = GetIndexSize
          /\ SubSeq(result, 1, GetIndexSize) = ResultIndex
          /\ SubSeq(result, GetIndexSize + 1, Len(result)) = blockResult
          /\ Len(result) = GetCompressedWords
          /\ ~IsIndex16 /\ Len(indexResult) % 2 = 1 =>
                result[GetIndexSize] \div 256 = 0
          /\ IsTooLarge <=> (GetIndexSize + Len(blockResult) >= 65536)
    /\ \A indexSize \in 0..3 : \A blockWords \in 65531..65538 :
          IsTooLargeOf(indexSize, blockWords)
              <=> (indexSize + blockWords >= 65536)

\* getResult has returned for three blocks with an 8-bit index: two index
\* words, the second one half padding, and block data after them.
C15_Witness ==
    /\ ResultWritten
    /\ ~IsIndex16
    /\ Len(indexResult) = 3
    /\ blockResult # <<>>
    /\ Len(result) = 2 + Len(blockResult)

\* C17: with zero frames encodeTiles leaves no index entry and no block
\* data, isIndex16() is false, getIndexSize() is 0 and getResult appends
\* nothing.
C17_ZeroFrames ==
    AfterEncodeTiles /\ mFrames = 0 =>
        /\ indexResult = <<>>
        /\ blockResult = <<>>
        /\ payloads = <<>>
        /\ ~IsIndex16
        /\ GetIndexSize = 0
        /\ GetCompressedWords = 0
        /\ ResultWritten => result = <<>>

\* getResult has returned for an image of zero frames of two tiles by two.
C17_Witness ==
    /\ ResultWritten
    /\ mFrames = 0
    /\ mWidth = 2 /\ mHeight = 2

-----------------------------------------------------------------------------
(* Claims about the code stream of a block (under Spec) *)

\* encodeTiles has returned for one 8 by 8 frame of tile 0.
AllZeroEncoded ==
    /\ AfterEncodeTiles
    /\ mWidth = 8 /\ mHeight = 8 /\ mFrames = 1
    /\ \A i \in 1..64 : tiles[i] = 0

\* The words hold nbits bits of codes and zeros after them, up to a word
\* boundary.
ZeroPadded(words, nbits) ==
    /\ Len(words) = CeilDiv(nbits, 16)
    /\ nbits % 16 # 0 => words[Len(words)] < 2 ^ (nbits % 16)

\* C16 as stated: for one 8 by 8 frame of tile 0 the index has one entry
\* and the code stream is exactly DELTA 0 followed by one REPEAT 62, the
\* final word padded with zeros.
C16_DeltaRepeat ==
    AllZeroEncoded =>
        /\ Len(indexResult) = 1
        /\ codes = <<Code("DELTA", 0), Code("REPEAT", 62)>>
        /\ ZeroPadded(blockResult,
                      CodeLen(Code("DELTA", 0)) + CodeLen(Code("REPEAT", 62)))

\* C16: for one 8 by 8 frame of tile 0 the index has one entry (address 0)
\* and the code stream is exactly DELTA 0, REF 0, REF 0, REPEAT 61: the
\* second tile is a back reference, the third repeats it and begins the
\* run, and the other 61 tiles are counted by the REPEAT; the final word is
\* padded with zeros.
C16_DeltaRefRepeat ==
    AllZeroEncoded =>
        /\ indexResult = <<0>>
        /\ codes = <<Code("DELTA", 0), Code("REF", 0), Code("REF", 0),
                     Code("REPEAT", 61)>>
        /\ blockResult = payloads[1]
        /\ ZeroPadded(blockResult,
                      CodeLen(Code("DELTA", 0)) + 2 * CodeLen(Code("REF", 0))
                          + CodeLen(Code("REPEAT", 61)))

\* encodeTiles has returned for the all-zero frame, its block ended by a
\* REPEAT in a word that is not full.
C16_Witness ==
    /\ AllZeroEncoded
    /\ codes # <<>>
    /\ codes[Len(codes)].type = "REPEAT"
    /\ blockResult # <<>>
    /\ blockResult[Len(blockResult)] < 32768

\* The number of tiles a code stands for
TilesOf(code) == IF code.type = "REPEAT" THEN code.value ELSE 1

\* The number of tiles the codes cs[lo..hi] stand for
RECURSIVE TilesCovered(_, _, _)
TilesCovered(cs, lo, hi) ==
    IF lo > hi THEN 0
    ELSE IF lo = hi THEN TilesOf(cs[lo])
    ELSE TilesCovered(cs, lo, (lo + hi) \div 2)
            + TilesCovered(cs, ((lo + hi) \div 2) + 1, hi)

\* The code findBestCode chooses for the n-th tile (1-based) of the tiles ts
ChosenCode(ts, n) == FindBestCode(SubSeq(ts, 1, n - 1), ts[n])

\* A REPEAT of value v after a pair of codes `code`, the second of them
\* chosen for tile t: the v tiles after t have the same chosen code, and
\* the tile after them, if the encoder has seen one, has another.
RunCounted(ts, seen, code, t, v) ==
    /\ t + v <= seen
    /\ \A n \in (t + 1)..(t + v) : ChosenCode(ts, n) = code
    /\ t + v < seen => ChosenCode(ts, t + v + 1) # code

\* C20: in the codes packed for a block, every pair of consecutive
\* identical DELTA or REF codes is immediately followed by exactly one
\* REPEAT (at the latest when the block ends, with value 0 for a run that
\* was not extended), a REPEAT appears nowhere else, and its value is the
\* number of further tiles whose chosen code equals the pair's code.
C20_RepeatPlacement ==
    /\ \A i \in 1..Len(codes) :
          codes[i].type = "REPEAT" =>
              /\ i >= 3
              /\ codes[i - 1].type \in {"DELTA", "REF"}
              /\ codes[i - 1] = codes[i - 2]
              /\ RunCounted(BlockTiles(blk), bpos, codes[i - 1],
                            TilesCovered(codes, 1, i - 1), codes[i].value)
    /\ \A i \in 1..(Len(codes) - 1) :
          codes[i].type \in {"DELTA", "REF"} /\ codes[i] = codes[i + 1] =>
              IF i + 1 < Len(codes)
              THEN codes[i + 2].type = "REPEAT"
              ELSE dpc = "block" /\ repeating
    /\ BlockFinished => TilesCovered(codes, 1, Len(codes)) = blk.w * blk.h

\* A block has been finished whose codes hold a REPEAT that counts tiles
\* and end with a pair and its REPEAT 0.
C20_Witness ==
    /\ BlockFinished
    /\ Len(codes) >= 6
    /\ codes[Len(codes)] = Code("REPEAT", 0)
    /\ \E i \in 1..(Len(codes) - 1) :
          codes[i].type = "REPEAT" /\ codes[i].value > 0

-----------------------------------------------------------------------------
(* Claims about findBestCode and packCode (under Spec) *)

\* The back references to tile that are valid for dictionary d
RefCandidates(d, tile) == {i \in 0..(Len(d) - 1) : d[Len(d) - i] = tile}

\* The DELTA candidate for tile after dictionary d
DeltaCandidate(d, tile) ==
    Code("DELTA", IF d = <<>> THEN tile ELSE tile - d[Len(d)])

\* Code c is no longer than the DELTA candidate and any valid REF; it is
\* the REF of the most recent occurrence of the tile when there is one and
\* that REF is no longer than the DELTA, and the DELTA otherwise.
IsBestCode(c, refs, delta) ==
    /\ CodeLen(c) <= CodeLen(delta)
    /\ \A i \in refs : CodeLen(c) <= CodeLen(Code("REF", i))
    /\ c.type \in {"DELTA", "REF"}
    /\ c.type = "REF" <=>
          /\ refs # {}
          /\ \E i \in refs :
                /\ \A j \in refs : i <= j
                /\ CodeLen(Code("REF", i)) <= CodeLen(delta)
    /\ c.type = "REF" => c.value \in refs /\ \A j \in refs : c.value <= j
    /\ c.type = "DELTA" => c = delta

\* C21: the code findBestCode returned for the last tile taken into the
\* dictionary has minimal packed length among the DELTA candidate and all
\* valid REF candidates; it is REF i exactly when the tile occurs in the
\* dictionary and the REF of its most recent occurrence is no longer than
\* the DELTA, and otherwise the DELTA of the tile minus the last dictionary
\* entry (the tile itself on an empty dictionary).
C21_BestCode ==
    Len(dict) > 0 =>
        IsBestCode(prevCode,
                   RefCandidates(SubSeq(dict, 1, Len(dict) - 1), dict[Len(dict)]),
                   DeltaCandidate(SubSeq(dict, 1, Len(dict) - 1), dict[Len(dict)]))

\* findBestCode has returned a DELTA for a tile that occurs in the
\* dictionary, nine tiles back: the REF would be longer.
C21_Witness ==
    /\ dpc = "block"
    /\ Len(dict) = 10
    /\ prevCode.type = "DELTA"
    /\ RefCandidates(SubSeq(dict, 1, 9), dict[10]) # {}

\* The types packCode has a case for other than assert(0)
PackableTypes == {"DELTA", "REF", "REPEAT"}

\* C22: no code handed to packCode, by encodeBlock or by codeLen inside
\* findBestCode, has type INVALID; INVALID is only the value prevCode has
\* before the first tile of a block, and the first tile's code does not
\* compare equal to it, so no run begins there.
C22_NeverInvalid ==
    /\ \A i \in 1..Len(codes) : codes[i].type \in PackableTypes
    /\ \A i \in 1..Len(emitted) : emitted[i].type \in PackableTypes
    /\ Len(dict) > 0 =>
          /\ DeltaCandidate(SubSeq(dict, 1, Len(dict) - 1),
                            dict[Len(dict)]).type \in PackableTypes
          /\ prevCode.type \in {"DELTA", "REF"}
    /\ dpc = "block" /\ bpos = 0 => prevCode.type = "INVALID" /\ codes = <<>>
    /\ dpc = "block" /\ bpos = 1 => ~repeating /\ codes = <<prevCode>>

\* The first tile of a block is 0: its code DELTA 0 has the value of the
\* initial prevCode and has been packed without beginning a run.
C22_Witness ==
    /\ dpc = "block"
    /\ bpos = 1
    /\ codes = <<Code("DELTA", 0)>>
    /\ ~repeating

-----------------------------------------------------------------------------
(* Claims about the termination of optimizeIC (under FairSpecADPCM) *)

\* None of the moves of a pass from st has an error below err.
AllRejected(st, inp, err) ==
    \A k \in 1..Len(ClimbMoves(st)) :
        ~U64Lt(PrefixError(ClimbMoves(st)[k], inp), err)

\* C23: optimizeIC terminates for every input; every move the hill climb
\* accepts strictly lowers the error, a non-negative integer, and the loop
\* exits exactly when a full pass of its moves has been rejected.
C23_Terminates ==
    /\ (apc = "encode") ~> (apc = "optimized")
    /\ [][apc = "climb" /\ apc' = "climb" =>
            /\ error = PrefixError(state, input)
            /\ error' = PrefixError(state', input)
            /\ U64Lt(error', error)]_vars
    /\ [][apc = "climb" =>
            (apc' = "optimized" <=> AllRejected(state, input, error))]_vars
    /\ [][apc = "climb" /\ apc' = "optimized" => state' = state]_vars

\* optimizeIC has returned after a hill climb that accepted a move and left
\* the sample away from its seed.
C23_Witness ==
    /\ apc = "optimized"
    /\ Len(input) >= 4
    /\ accepted # NoAccepted
    /\ error = accepted[2]
    /\ state.sample # Int16(input[1] + 256 * input[2])

-----------------------------------------------------------------------------
(* Claims about the UICoordinator (under SpecUI) *)

\* The cubes whose slot points at the coordinator's own buffer
HoldingAvb == {c \in CubeIds : instances[c].vbuf = AvbAddr}

\* The state of the coordinator, the cube slots and the clock
UiState == <<avb, savedVBuf, instances, userBufs, stippleDeadline,
             uiConnected, vramPaused, sendStipple, sysConnected, ticks>>

\* C24: a detach gives the cube back the video buffer pointer it had before
\* the attach and leaves avb.cube invalid and savedVBuf null; at most one
\* cube holds the coordinator's own buffer, the attached one; detach() on an
\* unattached coordinator changes nothing.
C24_AttachDetach ==
    /\ [][isAttached /\ avb'.cube # avb.cube =>
            /\ instances'[avb.cube].vbuf = vbufBefore
            /\ savedVBuf' = 0]_vars
    /\ [](upc = "idle" /\ uiCall.op = "detach" =>
            avb.cube = SYS_CUBE_ID_INVALID /\ savedVBuf = 0)
    /\ [](HoldingAvb = IF isAttached THEN {avb.cube} ELSE {})
    /\ [][uiCall'.op = "detach" /\ uiCall' # uiCall /\ ~isAttached =>
            UNCHANGED UiState]_vars

\* detach() has returned cube 0, attached before, its own video buffer.
C24_Witness ==
    /\ upc = "idle"
    /\ uiCall = UiCall("detach", {}, 0)
    /\ instances[0].vbuf = UserBufAddr(0)
    /\ vbufBefore = UserBufAddr(0)
    /\ avb.cube = SYS_CUBE_ID_INVALID
    /\ savedVBuf = 0

\* C25: stippleCubes(cv) sets the vramPaused bits of cv, then the
\* sendStipple bits, and returns only when no connected cube of cv has
\* sendStipple pending, setting the deadline 200 ms ahead; restoreCubes(cv)
\* clears the sendStipple bits of cv first and the vramPaused bits only once
\* the time has reached stippleDeadline; with cv = 0 both change no state.
C25_StippleRestore ==
    /\ [][upc = "stipple_pause" /\ upc' # upc =>
            /\ vramPaused' = vramPaused \cup uiCall.cv
            /\ sendStipple' = sendStipple]_vars
    /\ [][upc = "stipple_send" /\ upc' # upc =>
            /\ uiCall.cv \subseteq vramPaused
            /\ sendStipple' = sendStipple \cup uiCall.cv]_vars
    /\ [][upc = "stipple_wait" /\ upc' # upc =>
            /\ upc' = "idle"
            /\ (uiCall.cv \cap sendStipple \cap sysConnected) = {}
            /\ stippleDeadline' = ticks + 200]_vars
    /\ [][stippleDeadline' # stippleDeadline => upc = "stipple_wait"]_vars
    /\ [][upc = "idle" /\ upc' = "restore_wait" =>
            /\ sendStipple' = sendStipple \ uiCall'.cv
            /\ vramPaused' = vramPaused]_vars
    /\ [](upc = "restore_wait" => (uiCall.cv \cap sendStipple) = {})
    /\ [][upc = "restore_wait" /\ upc' # upc =>
            /\ upc' = "idle"
            /\ ticks >= stippleDeadline
            /\ vramPaused' = vramPaused \ uiCall.cv]_vars
    /\ [][/\ uiCall' # uiCall
          /\ uiCall'.op \in {"stippleCubes", "restoreCubes"}
          /\ uiCall'.cv = {}
          => UNCHANGED UiState /\ upc' = "idle"]_vars

\* restoreCubes has resumed every cube, at the deadline of a stipple.
C25_Witness ==
    /\ upc = "idle"
    /\ uiCall = UiCall("restoreCubes", CubeIds, SYS_CUBE_ID_INVALID)
    /\ stippleDeadline > 0
    /\ ticks = stippleDeadline
    /\ vramPaused = {}
    /\ sendStipple = {}

\* The step is the entry of a pollForAttach call.
PollEntered ==
    /\ upc = "idle"
    /\ uiCall'.op = "pollForAttach"
    /\ (uiCall' # uiCall \/ avb' # avb \/ upc' # upc)

\* The step is the return of the attachToCube that pollForAttach called.
PollAttached ==
    /\ upc = "attach_wait"
    /\ uiCall.op = "pollForAttach"
    /\ upc' = "idle"

\* C26: pollForAttach returns true exactly when it attached to a cube during
\* the call; an attached cube that is no longer in sysConnected on entry is
\* detached first; with the attached cube still in sysConnected the
\* attachment is left unchanged and false is returned; a cube attached by the
\* call is system-connected when the call returns.
C26_PollForAttach ==
    /\ [][PollEntered /\ upc' = "idle" =>
            /\ ret'.poll = FALSE
            /\ avb'.cube \in {avb.cube, SYS_CUBE_ID_INVALID}]_vars
    /\ [][PollAttached =>
            /\ ret'.poll = TRUE
            /\ ~isAttached
            /\ avb'.cube = uiCall.id
            /\ instances'[uiCall.id].vbuf = AvbAddr]_vars
    /\ [][PollEntered /\ isAttached /\ avb.cube \notin sysConnected =>
            /\ instances'[avb.cube].vbuf = savedVBuf
            /\ avb'.cube = SYS_CUBE_ID_INVALID]_vars
    /\ [][PollEntered /\ isAttached /\ avb.cube \in sysConnected =>
            /\ UNCHANGED <<avb, savedVBuf, instances>>
            /\ upc' = "idle"
            /\ ret'.poll = FALSE]_vars
    /\ [][PollAttached => avb'.cube \in sysConnected']_vars

=============================================================================
